---- MODULE Spec2Model ----
(***************************************************************************)
(* A model of the DEFLATE block writer of compress/_flate: the Huffman     *)
(* bit writer (huffman_bit_writer.ts), the Huffman encoder                 *)
(* (huffman_code.ts) and the token helpers (token.ts).                     *)
(*                                                                         *)
(* JavaScript numbers are modelled by what the operators of the source do  *)
(* to them: <<, >>, | and ~ work on signed 32-bit integers and take the    *)
(* shift count modulo 32; a store into a Uint8Array keeps the low 8 bits;  *)
(* slice() of an array or typed array is a copy; reading a field of        *)
(* undefined throws a TypeError.                                           *)
(***************************************************************************)
EXTENDS Integers, Sequences, FiniteSets, TLC

VARIABLES
  bits, nbits, bytes, nbytes,          \* HuffmanBitWriter: bit buffer and staging
  codegenFreq, literalFreq, offsetFreq, codegen,
  literalEncoding, offsetEncoding, codegenEncoding,
  err,                                 \* the sticky error ("none" = undefined)
  sink, plan,                          \* the underlying writer: bytes received, outcome of its next writes
  sinkCalls, sinkFailed,               \* calls of writer.write, and which of them failed (0 = none)
  singleton,                           \* huffOffset's lazily built encoder
  thrown,                              \* exception that ended the last operation
  emitted,                             \* header the last operation other than flush wrote
  hist, resets,                        \* operations since construction / the last reset
  h, hfreq, hmaxBits, hthrown,         \* a stand-alone HuffmanEncoder and its last generate call
  hcalls,                              \* generate calls on h
  tk,                                  \* the last call of a function of token.ts: [op, a, b, value]
  cgCall,                              \* the generateCodegen calls made directly: [calls, numLiterals, numOffsets]
  fast,                                \* a DeflateFast: [table, prev, cur]
  fastCall                             \* its calls: [encodes, resets, op, src, dst]

vars == <<bits, nbits, bytes, nbytes, codegenFreq, literalFreq, offsetFreq, codegen,
          literalEncoding, offsetEncoding, codegenEncoding, err, sink, plan,
          sinkCalls, sinkFailed,
          singleton, thrown, emitted, hist, resets, h, hfreq, hmaxBits, hthrown, hcalls,
          tk, cgCall, fast, fastCall>>

-----------------------------------------------------------------------------
(* Bounds of the model *)
MaxOps == 3        \* operations on the writer before the first reset
MaxResets == 1     \* resets of the writer
MaxOpsAfter == 2   \* operations on the writer after a reset

-----------------------------------------------------------------------------
(* Program constants *)
MAX_NUM_LIT == 286
MAX_BITS_LIMIT == 16
OFFSET_CODE_COUNT == 30
END_BLOCK_MARKER == 256
LENGTH_CODES_START == 257
CODEGEN_CODE_COUNT == 19
BAD_CODE == 255
BUFFER_FLUSH_SIZE == 240
BUFFER_SIZE == BUFFER_FLUSH_SIZE + 8
MAX_STORE_BLOCK_SIZE == 65535

-----------------------------------------------------------------------------
(* 32-bit integer operators of JavaScript.  Every intermediate value stays *)
(* inside the signed 32-bit range.                                         *)

Pow2(n) == 2 ^ n

Lo16(a) == a % 65536
Hi16(a) == ((a - Lo16(a)) \div 65536) % 65536
FromHalves(hi, lo) == (IF hi >= 32768 THEN hi - 65536 ELSE hi) * 65536 + lo

RECURSIVE OrNat(_, _)
OrNat(a, b) ==
  IF a = 0 THEN b
  ELSE IF b = 0 THEN a
  ELSE (IF a % 2 = 1 \/ b % 2 = 1 THEN 1 ELSE 0) + 2 * OrNat(a \div 2, b \div 2)

RECURSIVE AndNat(_, _)
AndNat(a, b) ==
  IF a = 0 \/ b = 0 THEN 0
  ELSE (IF a % 2 = 1 /\ b % 2 = 1 THEN 1 ELSE 0) + 2 * AndNat(a \div 2, b \div 2)

\* a | b
BitOr(a, b) == FromHalves(OrNat(Hi16(a), Hi16(b)), OrNat(Lo16(a), Lo16(b)))
\* a & b
BitAnd(a, b) == FromHalves(AndNat(Hi16(a), Hi16(b)), AndNat(Lo16(a), Lo16(b)))
\* ~a
BitNot(a) == -a - 1
\* a << n : the count is taken modulo 32, the result wraps to 32 bits
Shl(a, n) ==
  LET s == n % 32 IN
  IF s = 0 THEN a
  ELSE IF s >= 16 THEN FromHalves((Lo16(a) * Pow2(s - 16)) % 65536, 0)
  ELSE LET l == Lo16(a) * Pow2(s)
       IN FromHalves((((Hi16(a) * Pow2(s)) % 65536) + (l \div 65536)) % 65536, l % 65536)
\* a >> n : arithmetic shift, the count is taken modulo 32
Sar(a, n) ==
  LET s == n % 32 IN
  IF s = 31 THEN (IF a < 0 THEN -1 ELSE 0) ELSE a \div Pow2(s)
\* the value a Uint8Array element keeps
ToUint8(a) == a % 256

-----------------------------------------------------------------------------
(* JavaScript arrays: a sequence whose element i is at position i + 1; an  *)
(* element that is a hole or undefined has def = FALSE.                    *)

UndefCode == [def |-> FALSE, code |-> 0, len |-> 0]
Hcode(c, l) == [def |-> TRUE, code |-> c, len |-> l]
UndefNode == [def |-> FALSE, literal |-> 0, freq |-> 0]
LiteralNode(l, f) == [def |-> TRUE, literal |-> l, freq |-> f]

Min(a, b) == IF a < b THEN a ELSE b
Max(a, b) == IF a > b THEN a ELSE b

\* arr[i]
At(arr, i, undef) == IF i >= 0 /\ i < Len(arr) THEN arr[i + 1] ELSE undef
\* arr[i] = v, growing the array when i is past its end
SetAt(arr, i, v, undef) ==
  IF i < Len(arr) THEN [arr EXCEPT ![i + 1] = v]
  ELSE [k \in 1..(i + 1) |-> IF k = i + 1 THEN v ELSE IF k <= Len(arr) THEN arr[k] ELSE undef]
\* arr.slice(a, b)
Slice(arr, a, b) ==
  LET n == Len(arr)
      lo == IF a < 0 THEN Max(n + a, 0) ELSE Min(a, n)
      hi == IF b < 0 THEN Max(n + b, 0) ELSE Min(b, n)
  IN IF hi <= lo THEN <<>> ELSE SubSeq(arr, lo + 1, hi)

-----------------------------------------------------------------------------
(* huffman_code.ts: the Huffman encoder *)

RECURSIVE XorNat(_, _)
XorNat(a, b) ==
  IF a = 0 THEN b
  ELSE IF b = 0 THEN a
  ELSE (IF (a % 2) # (b % 2) THEN 1 ELSE 0) + 2 * XorNat(a \div 2, b \div 2)

\* "2 ^ 16 - 1" and "2 ^ 31 - 1": in JavaScript ^ is exclusive or and binds
\* weaker than -, so these are 2 xor 15 and 2 xor 30
MAX_UINT16 == XorNat(2, 16 - 1)
MAX_INT32 == XorNat(2, 31 - 1)

maxNode == LiteralNode(MAX_UINT16, MAX_INT32)

\* utils.ts reverseBits: the 16-bit reversal of v
RECURSIVE RevBits(_, _)
RevBits(v, k) == IF k = 0 THEN 0 ELSE (v % 2) * Pow2(k - 1) + RevBits(v \div 2, k - 1)
reverseBits(v) == RevBits(v % 65536, 16)

reverseBitsN(number, bitLength) == reverseBits(Shl(number, 16 - bitLength))

\* new HuffmanEncoder(size): Array.from({ length: size }) holds size undefined entries
NewHuffmanEncoder(size) ==
  [codes |-> [i \in 1..size |-> UndefCode], bitCount |-> [i \in 1..17 |-> 0]]

fixedLiteralCode(ch) ==
  IF ch < 144 THEN Hcode(reverseBitsN(ch + 48, 8), 8)
  ELSE IF ch < 256 THEN Hcode(reverseBitsN(ch + 400 - 144, 9), 9)
  ELSE IF ch < 280 THEN Hcode(reverseBitsN(ch - 256, 7), 7)
  ELSE Hcode(reverseBitsN(ch + 192 - 280, 8), 8)

fixedLiteralEncoding ==
  [codes |-> [i \in 1..MAX_NUM_LIT |-> fixedLiteralCode(i - 1)], bitCount |-> [i \in 1..17 |-> 0]]

fixedOffsetEncoding ==
  [codes |-> [i \in 1..30 |-> Hcode(reverseBitsN(i - 1, 5), 5)], bitCount |-> [i \in 1..17 |-> 0]]

\* the sum of freq[i] * codes[i].len over the indices of the set used
RECURSIVE bitLengthOver(_, _, _)
bitLengthOver(enc, freq, used) ==
  IF used = {} THEN 0
  ELSE LET i == CHOOSE x \in used : \A y \in used : x <= y
       IN freq[i + 1] * enc.codes[i + 1].len + bitLengthOver(enc, freq, used \ {i})

\* bitLength: the result, and TypeError when a used symbol has no code object
bitLength(enc, freq) ==
  LET used == {i \in 0..(Len(freq) - 1) : freq[i + 1] # 0}
  IN IF \E i \in used : ~At(enc.codes, i, UndefCode).def
     THEN [total |-> 0, thrown |-> "TypeError"]
     ELSE [total |-> bitLengthOver(enc, freq, used), thrown |-> "none"]

\* compareByFreq(a, b) < 0 and compareByLiteral(a, b) < 0
compareByFreq(a, b) == IF a.freq = b.freq THEN a.literal < b.literal ELSE a.freq < b.freq
compareByLiteral(a, b) == a.literal < b.literal

\* Array.prototype.sort: the defined elements in order (stable), undefined
\* elements and holes after them
SortNodes(list, byFreq) ==
  LET n == Len(list)
      Less(a, b) == IF byFreq THEN compareByFreq(a, b) ELSE compareByLiteral(a, b)
      Before(j, k) ==
        IF list[j].def # list[k].def THEN list[j].def
        ELSE IF ~list[j].def THEN j < k
        ELSE Less(list[j], list[k]) \/ (~Less(list[k], list[j]) /\ j < k)
      Rank(k) == Cardinality({j \in 1..n : Before(j, k)}) + 1
  IN [r \in 1..n |-> list[CHOOSE k \in 1..n : Rank(k) = r]]

UndefLevel == [def |-> FALSE, level |-> 0, lastFreq |-> 0, nextCharFreq |-> 0,
               nextPairFreq |-> 0, needed |-> 0]

LevelAt(levels, i) == IF i >= 0 /\ i < MAX_BITS_LIMIT THEN levels[i] ELSE UndefLevel

\* the "while (levels[level - 1].needed > 0) level--" loop; level -1 = TypeError
RECURSIVE bitCountsDescend(_, _)
bitCountsDescend(levels, level) ==
  IF ~LevelAt(levels, level - 1).def THEN -1
  ELSE IF levels[level - 1].needed > 0 THEN bitCountsDescend(levels, level - 1)
  ELSE level

\* the "while (true)" loop of bitCounts from the state st = [levels, leafCounts, level];
\* line is the source line of the statement that threw (0 when none did)
RECURSIVE bitCountsWalk(_, _, _)
bitCountsWalk(st, list, maxBits) ==
  LET level == st.level
      l == LevelAt(st.levels, level)
      prevFreq == l.lastFreq
      leaf == l.nextCharFreq < l.nextPairFreq
      n == st.leafCounts[level][level] + 1
      node == At(list, n, UndefNode)
      below == LevelAt(st.levels, l.level - 1)
      lastFreq == IF leaf THEN l.nextCharFreq ELSE l.nextPairFreq
      needed == l.needed - 1
      l2 == [l EXCEPT !.lastFreq = lastFreq, !.needed = needed,
                      !.nextCharFreq = IF leaf THEN node.freq ELSE @]
      levels1 == IF leaf THEN [st.levels EXCEPT ![level] = l2]
                 ELSE [st.levels EXCEPT ![level] = l2, ![level - 1].needed = 2]
      leafCounts1 ==
        IF leaf THEN [st.leafCounts EXCEPT ![level][level] = n]
        ELSE [st.leafCounts EXCEPT ![level - 1] =
                [k \in 0..(MAX_BITS_LIMIT - 1) |-> IF k < level THEN st.leafCounts[level][k] ELSE @[k]]]
      down == bitCountsDescend(levels1, level)
  IN IF ~l.def THEN [thrown |-> "TypeError", leafCounts |-> st.leafCounts, line |-> 195]
     ELSE IF leaf /\ ~node.def
       THEN [thrown |-> "TypeError", leafCounts |-> st.leafCounts, line |-> 213]
     ELSE IF ~leaf /\ ~below.def
       THEN [thrown |-> "TypeError", leafCounts |-> st.leafCounts, line |-> 223]
     ELSE IF needed = 0
       THEN IF l.level = maxBits THEN [thrown |-> "none", leafCounts |-> leafCounts1, line |-> 0]
            ELSE bitCountsWalk([levels |-> [levels1 EXCEPT ![l.level + 1].nextPairFreq = prevFreq + lastFreq],
                                leafCounts |-> leafCounts1, level |-> level + 1], list, maxBits)
     ELSE IF down = -1 THEN [thrown |-> "TypeError", leafCounts |-> leafCounts1, line |-> 240]
     ELSE bitCountsWalk([levels |-> levels1, leafCounts |-> leafCounts1, level |-> down], list, maxBits)

\* the levels and the leafCounts bitCounts starts from
bitCountsLevels(l0, l1, l2, maxBits, n) ==
  [i \in 0..(MAX_BITS_LIMIT - 1) |->
    IF i >= 1 /\ i <= maxBits
    THEN [def |-> TRUE, level |-> i, lastFreq |-> l1.freq, nextCharFreq |-> l2.freq,
          nextPairFreq |-> IF i = 1 THEN MAX_INT32 ELSE l0.freq + l1.freq,
          needed |-> IF i = maxBits THEN 2 * n - 4 ELSE 0]
    ELSE UndefLevel]

bitCountsLeafCounts(maxBits) ==
  [i \in 0..(MAX_BITS_LIMIT - 1) |-> [j \in 0..(MAX_BITS_LIMIT - 1) |->
    IF i = j /\ i >= 1 /\ i <= maxBits THEN 2 ELSE 0]]

\* the end of bitCounts, after the "while (true)" loop gave walk = [thrown, leafCounts];
\* this.bitCount.slice(0, maxBits + 1) is a copy: the encoder's bitCount stays as it is
bitCountsResult(enc, walk, list, maxBits, n) ==
  IF walk.thrown # "none"
    THEN [thrown |-> walk.thrown, bitCount |-> <<>>, list |-> list, line |-> walk.line]
  ELSE IF walk.leafCounts[maxBits][maxBits] # n
    THEN [thrown |-> "Error", bitCount |-> <<>>, list |-> list, line |-> 249]
  ELSE [thrown |-> "none", line |-> 0,
        bitCount |-> [b \in 1..(maxBits + 1) |->
                       IF b = 1 THEN enc.bitCount[1]
                       ELSE walk.leafCounts[maxBits][maxBits - (b - 1) + 1]
                            - walk.leafCounts[maxBits][maxBits - (b - 1)]],
        list |-> list]

\* bitCounts(list, maxBits): [thrown, bitCount, list]; list comes back with the
\* maxNode appended, as the caller's array does
bitCounts(enc, list0, maxBits0) ==
  LET n == Len(list0)
      list == SetAt(list0, n, maxNode, UndefNode)
      maxBits == IF maxBits0 > n - 1 THEN n - 1 ELSE maxBits0
      l0 == At(list, 0, UndefNode)
      l1 == At(list, 1, UndefNode)
      l2 == At(list, 2, UndefNode)
  IN IF maxBits0 >= MAX_BITS_LIMIT
       THEN [thrown |-> "Error", bitCount |-> <<>>, list |-> list0, line |-> 147]
     ELSE IF maxBits >= 1 /\ ~(l0.def /\ l1.def /\ l2.def)
       THEN [thrown |-> "TypeError", bitCount |-> <<>>, list |-> list, line |-> 178]
     ELSE IF maxBits < 1
       THEN [thrown |-> "TypeError", bitCount |-> <<>>, list |-> list, line |-> 190]
     ELSE bitCountsResult(enc,
            bitCountsWalk([levels |-> bitCountsLevels(l0, l1, l2, maxBits, n),
                           leafCounts |-> bitCountsLeafCounts(maxBits), level |-> maxBits],
                          list, maxBits),
            list, maxBits, n)

\* the "for (const node of chunk)" loop of assignEncodingAndSize
RECURSIVE assignChunk(_, _, _, _, _)
assignChunk(codes, chunk, i, code, n) ==
  IF i >= Len(chunk) THEN [codes |-> codes, code |-> code, thrown |-> "none"]
  ELSE IF ~chunk[i + 1].def THEN [codes |-> codes, code |-> code, thrown |-> "TypeError"]
  ELSE assignChunk(SetAt(codes, chunk[i + 1].literal, Hcode(reverseBitsN(code, n), n), UndefCode),
                   chunk, i + 1, code + 1, n)

\* the encoder with the codes of r = [codes, thrown]
encoderWith(enc, r) == [enc |-> [enc EXCEPT !.codes = r.codes], thrown |-> r.thrown]

\* the loop of assignEncodingAndSize from bit length n on; assignNext goes on
\* after the chunk of length n gave r = [codes, code, thrown]
RECURSIVE assignFrom(_, _, _, _, _)
RECURSIVE assignNext(_, _, _, _)
assignFrom(codes, bitCount, list, code0, n) ==
  IF n >= Len(bitCount) THEN [codes |-> codes, thrown |-> "none"]
  ELSE IF n = 0 \/ bitCount[n + 1] = 0
    THEN assignFrom(codes, bitCount, list, Shl(code0, 1), n + 1)
  ELSE assignNext(
         assignChunk(codes,
                     SortNodes(Slice(list, Len(list) - bitCount[n + 1], Len(list)), FALSE),
                     0, Shl(code0, 1), n),
         bitCount, list, n)

assignNext(r, bitCount, list, n) ==
  IF r.thrown # "none" THEN [codes |-> r.codes, thrown |-> r.thrown]
  ELSE assignFrom(r.codes, bitCount, Slice(list, 0, Len(list) - bitCount[n + 1]), r.code, n + 1)

assignEncodingAndSize(enc, bitCount, list) ==
  encoderWith(enc, assignFrom(enc.codes, bitCount, list, 0, 0))

\* the first loop of generate, from symbol i on; st = [list, count, codes, thrown]
RECURSIVE generateLoop(_, _, _)
generateLoop(st, freq, i) ==
  IF i >= Len(freq) THEN st
  ELSE IF freq[i + 1] # 0
    THEN generateLoop([st EXCEPT !.list = SetAt(@, st.count, LiteralNode(i, freq[i + 1]), UndefNode),
                                 !.count = @ + 1], freq, i + 1)
  ELSE IF ~At(st.codes, i, UndefCode).def
    THEN [st EXCEPT !.list = SetAt(@, st.count, LiteralNode(0, 0), UndefNode),
                    !.thrown = "TypeError"]
  ELSE generateLoop([st EXCEPT !.list = SetAt(@, st.count, LiteralNode(0, 0), UndefNode),
                               !.codes[i + 1].len = 0], freq, i + 1)

\* the "count <= 2" loop of generate, from list index i on
RECURSIVE generateSmall(_, _, _)
generateSmall(codes, list, i) ==
  IF i >= Len(list) THEN [codes |-> codes, thrown |-> "none"]
  ELSE IF ~list[i + 1].def THEN [codes |-> codes, thrown |-> "TypeError"]
  ELSE IF ~At(codes, list[i + 1].literal, UndefCode).def THEN [codes |-> codes, thrown |-> "TypeError"]
  ELSE generateSmall([codes EXCEPT ![list[i + 1].literal + 1] = Hcode(i, 1)], list, i + 1)

\* the end of generate, after bc = bitCounts(list, maxBits)
generateAssign(enc, bc) ==
  IF bc.thrown # "none" THEN [enc |-> enc, thrown |-> bc.thrown]
  ELSE assignEncodingAndSize(enc, bc.bitCount, bc.list)

\* generate after its first loop gave st = [list, count, codes, thrown];
\* this.freqcache is never assigned: freqcache.slice(0, freq.length + 1) is []
generateCounted(enc, st, freq, maxBits) ==
  LET list == SetAt(st.list, Len(freq), LiteralNode(0, 0), UndefNode)
      enc1 == [enc EXCEPT !.codes = st.codes]
  IN IF st.thrown # "none" THEN [enc |-> enc1, thrown |-> st.thrown]
     ELSE IF st.count <= 2 THEN encoderWith(enc, generateSmall(st.codes, list, 0))
     ELSE generateAssign(enc1, bitCounts(enc1, SortNodes(list, TRUE), maxBits))

\* generate(freq, maxBits) on the encoder enc: [enc, thrown]
generate(enc, freq, maxBits) ==
  generateCounted(enc,
    generateLoop([list |-> <<>>, count |-> 0, codes |-> enc.codes, thrown |-> "none"], freq, 0),
    freq, maxBits)

-----------------------------------------------------------------------------
(* token.ts *)

LENGTH_SHIFT == 22
OFFSET_MASK == Shl(1, LENGTH_SHIFT) - 1
LITERAL_TYPE == Shl(0, 30)
MATCH_TYPE == Shl(1, 30)

LENGTH_CODES == <<
  0, 1, 2, 3, 4, 5, 6, 7, 8, 8, 9, 9, 10, 10, 11, 11,
  12, 12, 12, 12, 13, 13, 13, 13, 14, 14, 14, 14, 15, 15, 15, 15,
  16, 16, 16, 16, 16, 16, 16, 16, 17, 17, 17, 17, 17, 17, 17, 17,
  18, 18, 18, 18, 18, 18, 18, 18, 19, 19, 19, 19, 19, 19, 19, 19,
  20, 20, 20, 20, 20, 20, 20, 20, 20, 20, 20, 20, 20, 20, 20, 20,
  21, 21, 21, 21, 21, 21, 21, 21, 21, 21, 21, 21, 21, 21, 21, 21,
  22, 22, 22, 22, 22, 22, 22, 22, 22, 22, 22, 22, 22, 22, 22, 22,
  23, 23, 23, 23, 23, 23, 23, 23, 23, 23, 23, 23, 23, 23, 23, 23,
  24, 24, 24, 24, 24, 24, 24, 24, 24, 24, 24, 24, 24, 24, 24, 24,
  24, 24, 24, 24, 24, 24, 24, 24, 24, 24, 24, 24, 24, 24, 24, 24,
  25, 25, 25, 25, 25, 25, 25, 25, 25, 25, 25, 25, 25, 25, 25, 25,
  25, 25, 25, 25, 25, 25, 25, 25, 25, 25, 25, 25, 25, 25, 25, 25,
  26, 26, 26, 26, 26, 26, 26, 26, 26, 26, 26, 26, 26, 26, 26, 26,
  26, 26, 26, 26, 26, 26, 26, 26, 26, 26, 26, 26, 26, 26, 26, 26,
  27, 27, 27, 27, 27, 27, 27, 27, 27, 27, 27, 27, 27, 27, 27, 27,
  27, 27, 27, 27, 27, 27, 27, 27, 27, 27, 27, 27, 27, 27, 27, 28 >>

OFFSET_CODES == <<
  0, 1, 2, 3, 4, 4, 5, 5, 6, 6, 6, 6, 7, 7, 7, 7,
  8, 8, 8, 8, 8, 8, 8, 8, 9, 9, 9, 9, 9, 9, 9, 9,
  10, 10, 10, 10, 10, 10, 10, 10, 10, 10, 10, 10, 10, 10, 10, 10,
  11, 11, 11, 11, 11, 11, 11, 11, 11, 11, 11, 11, 11, 11, 11, 11,
  12, 12, 12, 12, 12, 12, 12, 12, 12, 12, 12, 12, 12, 12, 12, 12,
  12, 12, 12, 12, 12, 12, 12, 12, 12, 12, 12, 12, 12, 12, 12, 12,
  13, 13, 13, 13, 13, 13, 13, 13, 13, 13, 13, 13, 13, 13, 13, 13,
  13, 13, 13, 13, 13, 13, 13, 13, 13, 13, 13, 13, 13, 13, 13, 13,
  14, 14, 14, 14, 14, 14, 14, 14, 14, 14, 14, 14, 14, 14, 14, 14,
  14, 14, 14, 14, 14, 14, 14, 14, 14, 14, 14, 14, 14, 14, 14, 14,
  14, 14, 14, 14, 14, 14, 14, 14, 14, 14, 14, 14, 14, 14, 14, 14,
  14, 14, 14, 14, 14, 14, 14, 14, 14, 14, 14, 14, 14, 14, 14, 14,
  15, 15, 15, 15, 15, 15, 15, 15, 15, 15, 15, 15, 15, 15, 15, 15,
  15, 15, 15, 15, 15, 15, 15, 15, 15, 15, 15, 15, 15, 15, 15, 15,
  15, 15, 15, 15, 15, 15, 15, 15, 15, 15, 15, 15, 15, 15, 15, 15,
  15, 15, 15, 15, 15, 15, 15, 15, 15, 15, 15, 15, 15, 15, 15, 15 >>

\* Token.literal(), Token.offset(), Token.length() of the token with value v
literalToken(literal) == LITERAL_TYPE + literal
\* "MATCH_TYPE + xlength << LENGTH_SHIFT + xoffset" is
\* (MATCH_TYPE + xlength) << (LENGTH_SHIFT + xoffset)
matchToken(xlength, xoffset) == Shl(MATCH_TYPE + xlength, LENGTH_SHIFT + xoffset)
TokenLiteral(v) == v - LITERAL_TYPE
TokenOffset(v) == BitAnd(v, OFFSET_MASK)
\* (this.value - MATCH_TYPE) >> LENGTH_SHIFT: the difference is taken to 32 bits
TokenLength(v) ==
  Sar(IF v < -MATCH_TYPE THEN v + MATCH_TYPE + MATCH_TYPE + MATCH_TYPE ELSE v - MATCH_TYPE,
      LENGTH_SHIFT)

lengthCode(len) == LENGTH_CODES[len + 1]

\* offsetCode whose second range adds 12 where the code adds 14
offsetCode_secondAdds12(off) ==
  IF off < Len(OFFSET_CODES) THEN OFFSET_CODES[off + 1]
  ELSE IF Sar(off, 7) < Len(OFFSET_CODES) THEN OFFSET_CODES[Sar(off, 7) + 1] + 12
  ELSE OFFSET_CODES[Sar(off, 14) + 1] + 28

offsetCode(off) ==
  IF off < Len(OFFSET_CODES) THEN OFFSET_CODES[off + 1]
  ELSE IF Sar(off, 7) < Len(OFFSET_CODES) THEN OFFSET_CODES[Sar(off, 7) + 1] + 14
  ELSE OFFSET_CODES[Sar(off, 14) + 1] + 28

-----------------------------------------------------------------------------
(* huffman_bit_writer.ts: tables *)

LENGTH_EXTRA_BITS == <<
  0, 0, 0, 0, 0, 0, 0, 0, 1, 1, 1, 1, 2, 2, 2, 2,
  3, 3, 3, 3, 4, 4, 4, 4, 5, 5, 5, 5, 0 >>

LENGTH_BASE == <<
  0, 1, 2, 3, 4, 5, 6, 7, 8, 10, 12, 14, 16, 20, 24, 28,
  32, 40, 48, 56, 64, 80, 96, 112, 128, 160, 192, 224, 255 >>

OFFSET_EXTRA_BITS == <<
  0, 0, 0, 0, 1, 1, 2, 2, 3, 3, 4, 4, 5, 5, 6, 6,
  7, 7, 8, 8, 9, 9, 10, 10, 11, 11, 12, 12, 13, 13 >>

OFFSET_BASE == <<
  0, 1, 2, 3, 4, 6, 8, 12, 16, 24, 32, 48, 64, 96, 128, 192,
  256, 384, 512, 768, 1024, 1536, 2048, 3072, 4096, 6144, 8192, 12288, 16384, 24576 >>

codegenOrder == <<
  16, 17, 18, 0, 8, 7, 9, 6, 10, 5, 11, 4, 12, 3, 13, 2,
  14, 1, 15 >>

-----------------------------------------------------------------------------
(* huffman_bit_writer.ts: HuffmanBitWriter.  The operators below take and  *)
(* return the writer as a record w of its fields, together with the sink   *)
(* (sink, plan), the exception in flight (thrown) and the header written   *)
(* (emitted).                                                              *)

Zeros(n) == [i \in 1..n |-> 0]

\* new HuffmanBitWriter(writer)
NewWriter(p, sing) ==
  [bits |-> 0, nbits |-> 0, bytes |-> Zeros(BUFFER_SIZE), nbytes |-> 0,
   codegenFreq |-> Zeros(CODEGEN_CODE_COUNT),
   literalFreq |-> Zeros(MAX_NUM_LIT),
   offsetFreq |-> Zeros(OFFSET_CODE_COUNT),
   codegen |-> Zeros(MAX_NUM_LIT + OFFSET_CODE_COUNT + 1),
   literalEncoding |-> NewHuffmanEncoder(MAX_NUM_LIT),
   offsetEncoding |-> NewHuffmanEncoder(CODEGEN_CODE_COUNT),
   codegenEncoding |-> NewHuffmanEncoder(OFFSET_CODE_COUNT),
   err |-> "none", sink |-> <<>>, plan |-> p, sinkCalls |-> 0, sinkFailed |-> 0,
   singleton |-> sing, thrown |-> "none", emitted |-> "none"]

\* reset that keeps the staged byte count
reset_keepsNbytes(w, p) ==
  [w EXCEPT !.sink = <<>>, !.plan = p, !.sinkCalls = 0, !.sinkFailed = 0,
            !.bits = 0, !.nbits = 0, !.err = "none"]

\* reset(writer): the new sink is empty and fails as p says
reset(w, p) ==
  [w EXCEPT !.sink = <<>>, !.plan = p, !.sinkCalls = 0, !.sinkFailed = 0,
            !.bits = 0, !.nbits = 0, !.nbytes = 0, !.err = "none"]

\* write that calls the sink even when err is set
write_notSticky(w, b) ==
  IF w.plan # <<>> /\ Head(w.plan)
    THEN [w EXCEPT !.err = "sink", !.plan = Tail(@),
                   !.sinkCalls = @ + 1, !.sinkFailed = w.sinkCalls + 1]
  ELSE [w EXCEPT !.sink = @ \o b, !.plan = IF @ = <<>> THEN @ ELSE Tail(@),
                 !.sinkCalls = @ + 1]

\* write(b): the sink's write fails when the head of plan is TRUE
write(w, b) ==
  IF w.err # "none" THEN w
  ELSE IF w.plan # <<>> /\ Head(w.plan)
    THEN [w EXCEPT !.err = "sink", !.plan = Tail(@),
                   !.sinkCalls = @ + 1, !.sinkFailed = w.sinkCalls + 1]
  ELSE [w EXCEPT !.sink = @ \o b, !.plan = IF @ = <<>> THEN @ ELSE Tail(@),
                 !.sinkCalls = @ + 1]

\* bytes[n] = v of a Uint8Array: a store past the end is dropped
SetByte(b, n, v) == IF n >= 0 /\ n < Len(b) THEN [b EXCEPT ![n + 1] = ToUint8(v)] ELSE b

\* the while loop of flush: every byte is stored at the same index n
RECURSIVE flushLoop(_, _)
flushLoop(w, n) ==
  IF w.nbits = 0 THEN w
  ELSE flushLoop([w EXCEPT !.bytes = SetByte(@, n, w.bits),
                           !.bits = Sar(@, 8),
                           !.nbits = IF @ > 8 THEN @ - 8 ELSE 0], n)

flush(w) ==
  IF w.err # "none" THEN [w EXCEPT !.nbits = 0]
  ELSE LET n == w.nbytes
           w1 == [flushLoop(w, n) EXCEPT !.bits = 0]
       IN [write(w1, Slice(w1.bytes, 0, n)) EXCEPT !.nbytes = 0]

\* the tail shared by writeBits and writeCode once bits and nbits are updated;
\* the six bytes are stored into this.bytes.slice(n, n + 6), a copy
drain(w) ==
  IF w.nbits >= 48
  THEN LET w1 == [w EXCEPT !.bits = Sar(@, 48), !.nbits = @ - 48]
           n == w.nbytes + 6
       IN IF n >= BUFFER_FLUSH_SIZE
          THEN [write(w1, Slice(w1.bytes, 0, n)) EXCEPT !.nbytes = 0]
          ELSE [w1 EXCEPT !.nbytes = n]
  ELSE w

writeBits(w, b, nb) ==
  IF w.err # "none" THEN w
  ELSE drain([w EXCEPT !.bits = BitOr(@, Shl(b, w.nbits)), !.nbits = @ + nb])

writeCode(w, c) ==
  IF w.err # "none" THEN w
  ELSE IF ~c.def THEN [w EXCEPT !.thrown = "TypeError"]
  ELSE drain([w EXCEPT !.bits = BitOr(@, Shl(c.code, w.nbits)), !.nbits = @ + c.len])

\* the while loop of writeBytes: [w, n]
RECURSIVE writeBytesLoop(_, _)
writeBytesLoop(w, n) ==
  IF w.nbits = 0 THEN [w |-> w, n |-> n]
  ELSE writeBytesLoop([w EXCEPT !.bytes = SetByte(@, n, w.bits),
                                !.bits = Sar(@, 8),
                                !.nbits = @ - 8], n + 1)

\* writeBytes that sends the block before it reports unfinished bits
writeBytes_sendsBlock(w, block) ==
  IF w.err # "none" THEN w
  ELSE IF BitAnd(w.nbits, 7) # 0 THEN [write(w, block) EXCEPT !.err = "unfinished bits"]
  ELSE LET r == writeBytesLoop(w, w.nbytes)
           w1 == IF r.n # 0 THEN write(r.w, Slice(r.w.bytes, 0, r.n)) ELSE r.w
       IN write([w1 EXCEPT !.nbytes = 0], block)

writeBytes(w, block) ==
  IF w.err # "none" THEN w
  ELSE IF BitAnd(w.nbits, 7) # 0 THEN [w EXCEPT !.err = "unfinished bits"]
  ELSE LET r == writeBytesLoop(w, w.nbytes)
           w1 == IF r.n # 0 THEN write(r.w, Slice(r.w.bytes, 0, r.n)) ELSE r.w
       IN write([w1 EXCEPT !.nbytes = 0], block)

writeStoredHeader(w, length, isEof) ==
  IF w.err # "none" THEN w
  ELSE LET flag == IF isEof THEN 1 ELSE 0
           w1 == writeBits([w EXCEPT !.emitted = "stored"], flag, 3)
           w2 == flush(w1)
           w3 == writeBits(w2, length, 16)
       IN writeBits(w3, BitNot(length), 16)

writeFixedHeader(w, isEof) ==
  IF w.err # "none" THEN w
  ELSE writeBits([w EXCEPT !.emitted = "fixed"], IF isEof THEN 3 ELSE 2, 3)

-----------------------------------------------------------------------------
(* huffman_bit_writer.ts: the block writer *)

\* a number that is not an integer: NaN (undefined + 1), and a hole of an array
NaN == -1
Hole == -2

\* arr[i]++ on a plain array of numbers
IncrAt(arr, i) ==
  IF i >= 0 /\ i < Len(arr)
  THEN [arr EXCEPT ![i + 1] = IF @ \in {NaN, Hole} THEN NaN ELSE @ + 1]
  ELSE SetAt(arr, i, NaN, Hole)

\* the token loop of indexTokens from token k on: [literalFreq, offsetFreq]
RECURSIVE indexLoop(_, _, _, _)
indexLoop(lf, of, tokens, k) ==
  IF k > Len(tokens) THEN [literalFreq |-> lf, offsetFreq |-> of]
  ELSE IF tokens[k] < MATCH_TYPE
    THEN indexLoop(IncrAt(lf, TokenLiteral(tokens[k])), of, tokens, k + 1)
  ELSE indexLoop(IncrAt(lf, LENGTH_CODES_START + lengthCode(TokenLength(tokens[k]))),
                 IncrAt(of, offsetCode(TokenOffset(tokens[k]))), tokens, k + 1)

\* "while (freq[n - 1] === 0) n--", with the n > 0 test for the offsets only
RECURSIVE trimZeros(_, _, _)
trimZeros(freq, n, guarded) ==
  IF guarded /\ n <= 0 THEN n
  ELSE IF n - 1 >= 0 /\ n - 1 < Len(freq) /\ freq[n] = 0 THEN trimZeros(freq, n - 1, guarded)
  ELSE n

\* the writer with the outcome g = [enc, thrown] of a generate call
withLiteralEncoding(w, g) == [w EXCEPT !.literalEncoding = g.enc, !.thrown = g.thrown]
withOffsetEncoding(w, g) == [w EXCEPT !.offsetEncoding = g.enc, !.thrown = g.thrown]
withCodegenEncoding(w, g) == [w EXCEPT !.codegenEncoding = g.enc, !.thrown = g.thrown]

\* this.literalEncoding.generate(this.literalFreq, 15)
generateLiteralEncoding(w) ==
  withLiteralEncoding(w, generate(w.literalEncoding, w.literalFreq, 15))

\* this.offsetEncoding.generate(this.offsetFreq, 15), not reached after a throw
generateOffsetEncoding(w) ==
  IF w.thrown # "none" THEN w
  ELSE withOffsetEncoding(w, generate(w.offsetEncoding, w.offsetFreq, 15))

\* indexTokens once the tokens are counted into r = [literalFreq, offsetFreq]
indexCounted(w, r) ==
  LET numLiterals == trimZeros(r.literalFreq, Len(r.literalFreq), FALSE)
      numOffsets0 == trimZeros(r.offsetFreq, Len(r.offsetFreq), TRUE)
      offsetFreq1 == IF numOffsets0 = 0 THEN [r.offsetFreq EXCEPT ![1] = 1] ELSE r.offsetFreq
      numOffsets == IF numOffsets0 = 0 THEN 1 ELSE numOffsets0
  IN [w |-> generateOffsetEncoding(generateLiteralEncoding(
              [w EXCEPT !.literalFreq = r.literalFreq, !.offsetFreq = offsetFreq1])),
      numLiterals |-> numLiterals, numOffsets |-> numOffsets]

\* indexTokens(tokens): the writer, numLiterals and numOffsets
indexTokens(w, tokens) ==
  indexCounted(w, indexLoop(Zeros(Len(w.literalFreq)), Zeros(Len(w.offsetFreq)), tokens, 1))

\* the "while (count >= 3)" loop of generateCodegen (symbol 16)
RECURSIVE codegenRepeat(_)
codegenRepeat(st) ==
  IF st.count >= 3
  THEN LET n == IF 6 > st.count THEN st.count ELSE 6
       IN codegenRepeat([st EXCEPT
            !.codegen = SetByte(SetByte(@, st.outIndex, 16), st.outIndex + 1, n - 3),
            !.outIndex = @ + 2, !.codegenFreq = IncrAt(@, 16), !.count = @ - n])
  ELSE st

\* the "while (count >= 11)" loop of generateCodegen (symbol 18)
RECURSIVE codegenZeros(_)
codegenZeros(st) ==
  IF st.count >= 11
  THEN LET n == IF 138 > st.count THEN st.count ELSE 138
       IN codegenZeros([st EXCEPT
            !.codegen = SetByte(SetByte(@, st.outIndex, 18), st.outIndex + 1, n - 11),
            !.outIndex = @ + 2, !.codegenFreq = IncrAt(@, 18), !.count = @ - n])
  ELSE st

\* the "for (; count >= 0; count--)" loop of generateCodegen
RECURSIVE codegenRest(_, _)
codegenRest(st, size) ==
  IF st.count >= 0
  THEN codegenRest([st EXCEPT !.codegen = SetByte(@, st.outIndex, size), !.outIndex = @ + 1,
                              !.codegenFreq = IncrAt(@, size), !.count = @ - 1], size)
  ELSE st

\* a read of the Uint8Array codegen: BAD_CODE + 1 stands for undefined
CodegenAt(cg, i) == IF i >= 0 /\ i < Len(cg) THEN cg[i + 1] ELSE BAD_CODE + 1

\* the main loop of generateCodegen; st = [codegen, codegenFreq, count, outIndex].
\* The iterations that only count a repeated size ("continue") are taken in
\* one step: they read codegen and write nothing.
RECURSIVE codegenLoop(_, _, _)
codegenLoop(st, size, inIndex) ==
  IF size = BAD_CODE THEN st
  ELSE
    LET last == CHOOSE j \in inIndex..Max(inIndex, Len(st.codegen)) :
                  /\ CodegenAt(st.codegen, j) # size
                  /\ \A k \in inIndex..(j - 1) : CodegenAt(st.codegen, k) = size
        nextSize == CodegenAt(st.codegen, last)
        seen == [st EXCEPT !.count = @ + (last - inIndex)]
        one == [seen EXCEPT !.codegen = SetByte(@, seen.outIndex, size), !.outIndex = @ + 1,
                            !.codegenFreq = IncrAt(@, size), !.count = @ - 1]
        z == codegenZeros(seen)
        z17 == IF z.count >= 3
               THEN [z EXCEPT !.codegen = SetByte(SetByte(@, z.outIndex, 17), z.outIndex + 1, z.count - 3),
                              !.outIndex = @ + 2, !.codegenFreq = IncrAt(@, 17), !.count = 0]
               ELSE z
        run == IF size # 0 THEN codegenRepeat(one) ELSE z17
        rest == codegenRest([run EXCEPT !.count = @ - 1], size)
    IN codegenLoop([rest EXCEPT !.count = 1], nextSize, last + 1)

\* generateCodegen: the code lengths are copied into codegen.slice(...), which
\* are copies, so codegen keeps what it held; only the end marker is stored
generateCodegen(w, numLiterals, numOffsets, litEnc, offEnc) ==
  LET codegen0 == SetByte(w.codegen, numLiterals + numOffsets, BAD_CODE)
      litUndef == \E i \in 0..(Min(numLiterals, Len(w.codegen)) - 1) : ~At(litEnc.codes, i, UndefCode).def
      offUndef == \E i \in 0..(Min(numLiterals + numOffsets, Len(w.codegen)) - Min(numLiterals, Len(w.codegen)) - 1) :
                    ~At(offEnc.codes, i, UndefCode).def
      st == codegenLoop([codegen |-> codegen0, codegenFreq |-> Zeros(Len(w.codegenFreq)),
                         count |-> 1, outIndex |-> 0], CodegenAt(codegen0, 0), 1)
  IN IF litUndef \/ offUndef THEN [w EXCEPT !.codegenFreq = Zeros(Len(w.codegenFreq)), !.thrown = "TypeError"]
     ELSE [w EXCEPT !.codegen = SetByte(st.codegen, st.outIndex, BAD_CODE),
                    !.codegenFreq = st.codegenFreq]

\* the numCodegens loop of dynamicSize
RECURSIVE trimCodegens(_, _)
trimCodegens(freq, n) ==
  IF n > 4 /\ n - 1 < Len(codegenOrder) /\ At(freq, codegenOrder[n], Hole) = 0
  THEN trimCodegens(freq, n - 1)
  ELSE n

\* dynamicSize(litEnc, offEnc, extraBits): [size, numCodegens, thrown]
dynamicSize(w, litEnc, offEnc, extraBits) ==
  LET numCodegens == trimCodegens(w.codegenFreq, Len(w.codegenFreq))
      cb == bitLength(w.codegenEncoding, w.codegenFreq)
      lb == bitLength(litEnc, w.literalFreq)
      ob == bitLength(offEnc, w.offsetFreq)
      header == 3 + 5 + 5 + 4 + (3 * numCodegens) + cb.total
                + At(w.codegenFreq, 16, 0) * 2 + At(w.codegenFreq, 17, 0) * 3
                + At(w.codegenFreq, 18, 0) * 7
  IN [size |-> header + lb.total + ob.total + extraBits,
      numCodegens |-> numCodegens,
      thrown |-> IF cb.thrown # "none" THEN cb.thrown
                 ELSE IF lb.thrown # "none" THEN lb.thrown ELSE ob.thrown]

fixedSize(w, extraBits) ==
  3 + bitLength(fixedLiteralEncoding, w.literalFreq).total
    + bitLength(fixedOffsetEncoding, w.offsetFreq).total + extraBits

\* storedSize(inBytes): [size, storable]
storedSize(hasInput, input) ==
  IF ~hasInput THEN [size |-> 0, storable |-> FALSE]
  ELSE IF Len(input) <= MAX_STORE_BLOCK_SIZE THEN [size |-> (Len(input) + 5) * 8, storable |-> TRUE]
  ELSE [size |-> 0, storable |-> FALSE]

\* the first loop of writeDynamicHeader: the lengths of the codegen codes
RECURSIVE headerLens(_, _, _)
headerLens(w, i, numCodegens) ==
  IF i >= numCodegens \/ w.thrown # "none" THEN w
  ELSE LET c == IF i < Len(codegenOrder)
                 THEN At(w.codegenEncoding.codes, codegenOrder[i + 1], UndefCode)
                 ELSE UndefCode
       IN IF ~c.def THEN [w EXCEPT !.thrown = "TypeError"]
          ELSE headerLens(writeBits(w, c.len, 3), i + 1, numCodegens)

\* the second loop of writeDynamicHeader: the code words of codegen
RECURSIVE headerCodes(_, _)
headerCodes(w, i) ==
  LET codeWord == CodegenAt(w.codegen, i)
      w1 == writeCode(w, At(w.codegenEncoding.codes, codeWord, UndefCode))
      extra == IF codeWord = 16 THEN 2 ELSE IF codeWord = 17 THEN 3 ELSE 7
  IN IF codeWord = BAD_CODE THEN w
     ELSE IF w1.thrown # "none" THEN w1
     ELSE IF codeWord \in {16, 17, 18}
       THEN headerCodes(writeBits(w1, CodegenAt(w1.codegen, i + 1), extra), i + 2)
     ELSE headerCodes(w1, i + 1)

writeDynamicHeader(w, numLiterals, numOffsets, numCodegens, isEof) ==
  IF w.err # "none" THEN w
  ELSE LET firstBits == IF isEof THEN 5 ELSE 4
           w1 == writeBits([w EXCEPT !.emitted = "dynamic"], firstBits, 3)
           w2 == writeBits(w1, numLiterals - 257, 5)
           w3 == writeBits(w2, numOffsets - 1, 5)
           w4 == writeBits(w3, numCodegens - 4, 4)
           w5 == headerLens(w4, 0, numCodegens)
       IN IF w5.thrown # "none" THEN w5 ELSE headerCodes(w5, 0)

\* one match token of writeTokens
writeMatch(w, t, leCodes, oeCodes) ==
  LET length == TokenLength(t)
      lCode == lengthCode(length)
      w1 == writeCode(w, At(leCodes, lCode + LENGTH_CODES_START, UndefCode))
      extraLengthBits == LENGTH_EXTRA_BITS[lCode + 1]
      w2 == IF extraLengthBits > 0
            THEN writeBits(w1, length - LENGTH_BASE[lCode + 1], extraLengthBits) ELSE w1
      offset == TokenOffset(t)
      oCode == offsetCode(offset)
      w3 == writeCode(w2, At(oeCodes, oCode, UndefCode))
      extraOffsetBits == OFFSET_EXTRA_BITS[oCode + 1]
  IN IF w1.thrown # "none" THEN w1
     ELSE IF w3.thrown # "none" THEN w3
     ELSE IF extraOffsetBits > 0
       THEN writeBits(w3, offset - OFFSET_BASE[oCode + 1], extraOffsetBits)
     ELSE w3

RECURSIVE writeTokensFrom(_, _, _, _, _)
writeTokensFrom(w, tokens, k, leCodes, oeCodes) ==
  IF k > Len(tokens) \/ w.thrown # "none" THEN w
  ELSE IF tokens[k] < MATCH_TYPE
    THEN writeTokensFrom(writeCode(w, At(leCodes, TokenLiteral(tokens[k]), UndefCode)),
                         tokens, k + 1, leCodes, oeCodes)
  ELSE writeTokensFrom(writeMatch(w, tokens[k], leCodes, oeCodes), tokens, k + 1, leCodes, oeCodes)

writeTokens(w, tokens, leCodes, oeCodes) ==
  IF w.err # "none" THEN w ELSE writeTokensFrom(w, tokens, 1, leCodes, oeCodes)

\* the extra bits of the length codes from lc on, and of the offset codes from oc on
RECURSIVE lengthExtra(_, _, _)
lengthExtra(w, lc, numLiterals) ==
  IF lc >= numLiterals THEN 0
  ELSE At(w.literalFreq, lc, 0) * LENGTH_EXTRA_BITS[lc - LENGTH_CODES_START + 1]
       + lengthExtra(w, lc + 1, numLiterals)

RECURSIVE offsetExtra(_, _, _)
offsetExtra(w, oc, numOffsets) ==
  IF oc >= numOffsets THEN 0
  ELSE At(w.offsetFreq, oc, 0) * OFFSET_EXTRA_BITS[oc + 1] + offsetExtra(w, oc + 1, numOffsets)

\* writeStoredHeader(input.length, eof) followed by writeBytes(input)
writeStored(w, eof, input) == writeBytes(writeStoredHeader(w, Len(input), eof), input)

\* this.codegenEncoding.generate(this.codegenFreq, 7), not reached after a throw
generateCodegenEncoding(w) ==
  IF w.thrown # "none" THEN w
  ELSE withCodegenEncoding(w, generate(w.codegenEncoding, w.codegenFreq, 7))

\* writeTokens(tokens, this.literalEncoding.codes, this.offsetEncoding.codes)
\* after a header that did not throw
writeTokensDynamic(w, tokens) ==
  IF w.thrown # "none" THEN w
  ELSE writeTokens(w, tokens, w.literalEncoding.codes, w.offsetEncoding.codes)

\* writeTokens(tokens, fixedLiteralEncoding.codes, fixedOffsetEncoding.codes)
writeTokensFixed(w, tokens) ==
  IF w.thrown # "none" THEN w
  ELSE writeTokens(w, tokens, fixedLiteralEncoding.codes, fixedOffsetEncoding.codes)

\* writeBlock from the size comparison on: ds = dynamicSize(...), fsize = fixedSize(...)
writeBlockSized(w, it, tokens, eof, st, input, ds, fsize) ==
  LET dynamic == ds.size < fsize
      size == IF dynamic THEN ds.size ELSE fsize
  IN IF ds.thrown # "none" THEN [w EXCEPT !.thrown = ds.thrown]
     ELSE IF st.storable /\ st.size < size THEN writeStored(w, eof, input)
     ELSE IF dynamic
       THEN writeTokensDynamic(
              writeDynamicHeader(w, it.numLiterals, it.numOffsets, ds.numCodegens, eof), tokens)
     ELSE writeTokensFixed(writeFixedHeader(w, eof), tokens)

\* writeBlock once the codegen encoding is generated
writeBlockCoded(w, it, tokens, eof, st, input, extraBits) ==
  IF w.thrown # "none" THEN w
  ELSE writeBlockSized(w, it, tokens, eof, st, input,
                       dynamicSize(w, w.literalEncoding, w.offsetEncoding, extraBits),
                       fixedSize(w, extraBits))

\* writeBlock after it = indexTokens(tokens)
writeBlockIndexed(it, tokens, eof, st, input) ==
  IF it.w.thrown # "none" THEN it.w
  ELSE writeBlockCoded(
         generateCodegenEncoding(generateCodegen(it.w, it.numLiterals, it.numOffsets,
                                                 it.w.literalEncoding, it.w.offsetEncoding)),
         it, tokens, eof, st, input,
         IF st.storable
         THEN lengthExtra(it.w, LENGTH_CODES_START + 8, it.numLiterals)
              + offsetExtra(it.w, 4, it.numOffsets)
         ELSE 0)

writeBlock(w, tokens0, eof, hasInput, input) ==
  IF w.err # "none" THEN w
  ELSE writeBlockIndexed(indexTokens(w, Append(tokens0, END_BLOCK_MARKER)),
                         Append(tokens0, END_BLOCK_MARKER), eof,
                         storedSize(hasInput, input), input)

\* writeBlockDynamic from the size comparison on; "size + size >> 4" is
\* (size + size) >> 4
writeBlockDynamicSized(w, it, tokens, eof, st, input, ds) ==
  IF ds.thrown # "none" THEN [w EXCEPT !.thrown = ds.thrown]
  ELSE IF st.storable /\ st.size < Sar(ds.size + ds.size, 4) THEN writeStored(w, eof, input)
  ELSE writeTokensDynamic(
         writeDynamicHeader(w, it.numLiterals, it.numOffsets, ds.numCodegens, eof), tokens)

\* writeBlockDynamic once the codegen encoding is generated
writeBlockDynamicCoded(w, it, tokens, eof, st, input) ==
  IF w.thrown # "none" THEN w
  ELSE writeBlockDynamicSized(w, it, tokens, eof, st, input,
                              dynamicSize(w, w.literalEncoding, w.offsetEncoding, 0))

\* writeBlockDynamic after it = indexTokens(tokens)
writeBlockDynamicIndexed(it, tokens, eof, st, input) ==
  IF it.w.thrown # "none" THEN it.w
  ELSE writeBlockDynamicCoded(
         generateCodegenEncoding(generateCodegen(it.w, it.numLiterals, it.numOffsets,
                                                 it.w.literalEncoding, it.w.offsetEncoding)),
         it, tokens, eof, st, input)

writeBlockDynamic(w, tokens0, eof, hasInput, input) ==
  IF w.err # "none" THEN w
  ELSE writeBlockDynamicIndexed(indexTokens(w, Append(tokens0, END_BLOCK_MARKER)),
                                Append(tokens0, END_BLOCK_MARKER), eof,
                                storedSize(hasInput, input), input)

\* histogram(b, h): the counts go into h.slice(0, 256), a copy, and are dropped
RECURSIVE histogramFrom(_, _, _)
histogramFrom(b, hcopy, k) ==
  IF k > Len(b) THEN hcopy ELSE histogramFrom(b, IncrAt(hcopy, b[k]), k + 1)
histogram(b, harr) ==
  LET hcopy == histogramFrom(b, Slice(harr, 0, 256), 1) IN harr

\* huffOffset.instance() when singleton is not set yet: g = [enc, thrown]
instanceOf(sing, g) ==
  IF g.thrown # "none" THEN [singleton |-> sing, enc |-> g.enc, thrown |-> g.thrown]
  ELSE [singleton |-> [def |-> TRUE, enc |-> g.enc], enc |-> g.enc, thrown |-> "none"]

\* huffOffset.instance(): [singleton, enc, thrown]
instance(sing) ==
  IF sing.def THEN [singleton |-> sing, enc |-> sing.enc, thrown |-> "none"]
  ELSE instanceOf(sing, generate(NewHuffmanEncoder(OFFSET_CODE_COUNT),
                                 [Zeros(OFFSET_CODE_COUNT) EXCEPT ![1] = 1], 15))

\* the literal loop of writeBlockHuff from input byte k on: [w, n, returned]
RECURSIVE huffLoop(_, _, _, _, _)
huffLoop(w, n, encoding, input, k) ==
  IF k > Len(input) THEN [w |-> w, n |-> n, returned |-> FALSE]
  ELSE
    LET c == At(encoding, input[k], UndefCode)
        w1 == [w EXCEPT !.bits = BitOr(@, Shl(c.code, w.nbits)), !.nbits = @ + c.len]
        w2 == [w1 EXCEPT !.bits = Sar(@, 48), !.nbits = @ - 48]
        w3 == write(w2, Slice(w2.bytes, 0, n + 6))
    IN IF ~c.def THEN [w |-> [w EXCEPT !.thrown = "TypeError"], n |-> n, returned |-> TRUE]
       ELSE IF w1.nbits < 48 THEN huffLoop(w1, n, encoding, input, k + 1)
       ELSE IF n + 6 < BUFFER_FLUSH_SIZE THEN huffLoop(w2, n + 6, encoding, input, k + 1)
       ELSE IF w3.err # "none" THEN [w |-> w3, n |-> n + 6, returned |-> TRUE]
       ELSE huffLoop(w3, 0, encoding, input, k + 1)

\* the end of writeBlockHuff: r = [w, n, returned] of the literal loop
writeBlockHuffEnd(r, encoding) ==
  IF r.returned THEN r.w
  ELSE writeCode([r.w EXCEPT !.nbytes = r.n], At(encoding, END_BLOCK_MARKER, UndefCode))

\* writeBlockHuff after writeDynamicHeader
writeBlockHuffLiterals(w, input) ==
  IF w.thrown # "none" THEN w
  ELSE LET encoding == Slice(w.literalEncoding.codes, 0, 257)
       IN writeBlockHuffEnd(huffLoop(w, w.nbytes, encoding, input, 1), encoding)

\* writeBlockHuff from the size comparison on; "size + size >> 4" is
\* (size + size) >> 4
writeBlockHuffSized(w, eof, input, ds, st) ==
  IF ds.thrown # "none" THEN [w EXCEPT !.thrown = ds.thrown]
  ELSE IF st.storable /\ st.size < Sar(ds.size + ds.size, 4) THEN writeStored(w, eof, input)
  ELSE writeBlockHuffLiterals(
         writeDynamicHeader(w, END_BLOCK_MARKER + 1, 1, ds.numCodegens, eof), input)

\* writeBlockHuff once the codegen encoding is generated
writeBlockHuffCoded(w, eof, input) ==
  IF w.thrown # "none" THEN w
  ELSE writeBlockHuffSized(w, eof, input,
                           dynamicSize(w, w.literalEncoding, instance(w.singleton).enc, 0),
                           storedSize(TRUE, input))

\* writeBlockHuff after i1 = huffOffset.instance()
writeBlockHuffInstanced(w, i1, eof, input) ==
  IF i1.thrown # "none" THEN [w EXCEPT !.singleton = i1.singleton, !.thrown = i1.thrown]
  ELSE writeBlockHuffCoded(
         generateCodegenEncoding(
           generateCodegen([w EXCEPT !.singleton = i1.singleton], END_BLOCK_MARKER + 1, 1,
                           w.literalEncoding, i1.enc)),
         eof, input)

\* writeBlockHuff after this.literalEncoding.generate(this.literalFreq, 15)
writeBlockHuffCounted(w, eof, input) ==
  IF w.thrown # "none" THEN w
  ELSE writeBlockHuffInstanced(w, instance(w.singleton), eof, input)

writeBlockHuff(w, eof, input) ==
  IF w.err # "none" THEN w
  ELSE writeBlockHuffCounted(
         generateLiteralEncoding(
           [w EXCEPT !.literalFreq = [histogram(input, Zeros(Len(w.literalFreq)))
                                        EXCEPT ![END_BLOCK_MARKER + 1] = 1],
                     !.offsetFreq[1] = 1]),
         eof, input)

-----------------------------------------------------------------------------
(* deflatefast.ts: numbers.  A non-negative integer held by a JavaScript   *)
(* number or bigint is a sequence of base-256 digits, least significant    *)
(* first and without leading zero digits: the products of hash need up to  *)
(* 94 bits.  The bytes of the model's inputs are below 128, so load32      *)
(* never yields a negative number.                                         *)

\* the digits d without their leading zeros
RECURSIVE Norm(_)
Norm(d) == IF d = <<>> \/ d[Len(d)] # 0 THEN d ELSE Norm(SubSeq(d, 1, Len(d) - 1))

\* the digits of the integer n >= 0
RECURSIVE NumOfInt(_)
NumOfInt(n) == IF n = 0 THEN <<>> ELSE <<n % 256>> \o NumOfInt(n \div 256)

DigitAt(d, i) == IF i >= 0 /\ i < Len(d) THEN d[i + 1] ELSE 0

\* the sum of a[i] * b[k - i] for i in lo..k
RECURSIVE MulColumn(_, _, _, _)
MulColumn(a, b, k, i) ==
  IF i > k THEN 0 ELSE DigitAt(a, i) * DigitAt(b, k - i) + MulColumn(a, b, k, i + 1)

RECURSIVE MulDigits(_, _, _, _)
MulDigits(a, b, k, carry) ==
  IF k >= Len(a) + Len(b) THEN <<>>
  ELSE <<(MulColumn(a, b, k, 0) + carry) % 256>>
       \o MulDigits(a, b, k + 1, (MulColumn(a, b, k, 0) + carry) \div 256)

\* a * b
MulNum(a, b) == Norm(MulDigits(a, b, 0, 0))

\* floor(a / 2^k)
ShrNum(a, k) ==
  Norm([i \in 1..Max(Len(a) - (k \div 8), 0) |->
          (DigitAt(a, i - 1 + (k \div 8)) \div Pow2(k % 8))
          + (DigitAt(a, i + (k \div 8)) % Pow2(k % 8)) * Pow2(8 - (k % 8))])

\* a * 2^k
ShlNum(a, k) == MulNum(a, Zeros(k \div 8) \o <<Pow2(k % 8)>>)

BitOfNum(a, i) == (DigitAt(a, i \div 8) \div Pow2(i % 8)) % 2

\* the number of bits of the integer n >= 0
RECURSIVE BitLenInt(_)
BitLenInt(n) == IF n = 0 THEN 0 ELSE 1 + BitLenInt(n \div 2)
BitLenNum(a) == IF a = <<>> THEN 0 ELSE 8 * (Len(a) - 1) + BitLenInt(a[Len(a)])

\* a + 1
RECURSIVE IncNum(_)
IncNum(a) ==
  IF a = <<>> THEN <<1>>
  ELSE IF a[1] < 255 THEN <<a[1] + 1>> \o Tail(a)
  ELSE <<0>> \o IncNum(Tail(a))

\* a rounded to 53 significant bits, ties to even, when its lowest drop bits go
RoundDropped(a, drop) ==
  IF BitOfNum(a, drop - 1) = 1
     /\ (BitOfNum(a, drop) = 1 \/ \E j \in 0..(drop - 2) : BitOfNum(a, j) = 1)
  THEN ShlNum(IncNum(ShrNum(a, drop)), drop)
  ELSE ShlNum(ShrNum(a, drop), drop)

\* the integer a as a double: Number(a) of a bigint, or the result of an
\* operation on numbers whose exact value is a
ToDouble(a) == IF BitLenNum(a) <= 53 THEN a ELSE RoundDropped(a, BitLenNum(a) - 53)


-----------------------------------------------------------------------------
(* deflatefast.ts: DeflateFast *)

FAST_MAX_INT32 == 2147483647  \* MAX_INT32 of deflatefast.ts
TABLE_BITS == 14
TABLE_SIZE == Shl(1, TABLE_BITS)
TABLE_MASK == TABLE_SIZE - 1
TABLE_SHIFT == 32 - TABLE_BITS
BUFFER_RESET == FAST_MAX_INT32 - MAX_STORE_BLOCK_SIZE * 2
BASE_MATCH_LENGTH == 3
MAX_MATCH_LENGTH == 258
BASE_MATCH_OFFSET == 1
MAX_MATCH_OFFSET == Shl(1, 15)
INPUT_MARGIN == 16 - 1
MIN_NON_LITERAL_BLOCK_SIZE == 1 + 1 + INPUT_MARGIN

HASH_MULTIPLIER == <<189, 167, 53, 30>>  \* 0x1e35a7bd

\* n & TABLE_MASK for a non-negative number n
TableIndex(a) == BitAnd(DigitAt(a, 0) + Pow2(8) * DigitAt(a, 1), TABLE_MASK)

\* src[i] of a Uint8Array: -1 stands for undefined
ByteAt(b, i) == IF i >= 0 /\ i < Len(b) THEN b[i + 1] ELSE -1

\* load32(b, i), for i + 3 < b.length
load32(b, i) ==
  BitOr(BitOr(BitOr(b[i + 1], b[i + 2] * Pow2(8)), b[i + 3] * Pow2(16)), b[i + 4] * Pow2(24))

\* load64(b, i), for i + 7 < b.length: a bigint
load64(b, i) == Norm(SubSeq(b, i + 1, i + 8))

\* hash(u) of a bigint: Math.floor(Number((u * 0x1e35a7bd) / 2^TABLE_SHIFT))
hashBigInt(u) == ToDouble(ShrNum(MulNum(u, HASH_MULTIPLIER), TABLE_SHIFT))

\* hash(u) of a number: Math.floor((u * 0x1e35a7bd) / 2^TABLE_SHIFT)
hashNumber(u) == ShrNum(ToDouble(MulNum(u, HASH_MULTIPLIER)), TABLE_SHIFT)

\* a table entry { val, offset }
TableEntry(val, offset) == [val |-> val, offset |-> offset]

\* this.table[i]: the table holds the entries stored so far, every other
\* entry is the { val: 0, offset: 0 } of the constructor
TableAt(table, i) == IF i \in DOMAIN table THEN table[i] ELSE TableEntry(<<>>, 0)
TableSet(table, i, entry) ==
  [k \in DOMAIN table \cup {i} |-> IF k = i THEN entry ELSE table[k]]

\* a Uint8Array of the given length whose first bytes are head and whose
\* other bytes are 0
Uint8Zeros(n) == [length |-> n, head |-> <<>>]
\* prev.slice(0, n)
PrevSlice(prev, n) ==
  [length |-> Min(prev.length, n), head |-> SubSeq(prev.head, 1, Min(Len(prev.head), n))]
\* prev[i] = src[i] for i < src.length: writes past the end are dropped
PrevFill(prev, src) ==
  [length |-> prev.length,
   head |-> SubSeq(src, 1, Min(prev.length, Len(src)))
            \o SubSeq(prev.head, Min(prev.length, Len(src)) + 1, Len(prev.head))]
PrevAt(prev, i) ==
  IF i < 0 \/ i >= prev.length THEN -1 ELSE IF i < Len(prev.head) THEN prev.head[i + 1] ELSE 0

\* new DeflateFast()
NewDeflateFast ==
  [table |-> <<>>, prev |-> Uint8Zeros(MAX_STORE_BLOCK_SIZE), cur |-> MAX_STORE_BLOCK_SIZE]

\* shiftOffsets that leaves cur as it is
shiftOffsets_keepsCur(e) ==
  IF e.prev.length = 0 THEN [e EXCEPT !.table = <<>>]
  ELSE [e EXCEPT
          !.table = [k \in DOMAIN e.table |->
                       TableEntry(e.table[k].val,
                                  Max(e.table[k].offset - e.cur + MAX_MATCH_OFFSET + 1, 0))]]

\* shiftOffsets()
shiftOffsets(e) ==
  IF e.prev.length = 0 THEN [e EXCEPT !.table = <<>>, !.cur = MAX_MATCH_OFFSET + 1]
  ELSE [e EXCEPT
          !.table = [k \in DOMAIN e.table |->
                       TableEntry(e.table[k].val,
                                  Max(e.table[k].offset - e.cur + MAX_MATCH_OFFSET + 1, 0))],
          !.cur = MAX_MATCH_OFFSET + 1]

\* reset()
resetFast(e) ==
  IF e.cur + MAX_MATCH_OFFSET >= BUFFER_RESET
  THEN shiftOffsets([e EXCEPT !.prev = PrevSlice(@, 0), !.cur = @ + MAX_MATCH_OFFSET])
  ELSE [e EXCEPT !.prev = PrevSlice(@, 0), !.cur = @ + MAX_MATCH_OFFSET]

\* emitLiteral(dst, lit)
emitLiteral(dst, lit) == dst \o [i \in 1..Len(lit) |-> literalToken(lit[i])]

\* the first i >= k with a[i] !== b[i], or n: a and b are read through the
\* functions A and B of an index
RECURSIVE firstDifference(_, _, _, _)
firstDifference(A, B, k, n) ==
  IF k >= n THEN n ELSE IF A[k] # B[k] THEN k ELSE firstDifference(A, B, k + 1, n)

\* matchLen when t >= 0: a = src.slice(s, s1), b = src.slice(t).slice(0, a.length)
matchLenCurrent(s, s1, t, src) ==
  firstDifference([i \in 0..(s1 - s) |-> ByteAt(src, s + i)],
                  [i \in 0..(s1 - s) |->
                     IF i < Min(Max(Len(src) - t, 0), Max(s1 - s, 0)) THEN ByteAt(src, t + i) ELSE -1],
                  0, Max(s1 - s, 0))

\* matchLen after the n bytes matched in prev: the match goes on in src
matchLenWrapped(s, s1, n, src) ==
  IF s + n = s1 THEN n
  ELSE firstDifference([i \in 0..(s1 - s) |-> ByteAt(src, s + n + i)],
                       [i \in 0..(s1 - s) |->
                          IF i < Min(Len(src), Max(s1 - s - n, 0)) THEN ByteAt(src, i) ELSE -1],
                       0, Max(s1 - s - n, 0)) + n

\* matchLen when t < 0 and tp = prev.length + t >= 0; blen is b.length
matchLenPrevious(e, s, s1, tp, blen, src) ==
  IF firstDifference([i \in 0..blen |-> ByteAt(src, s + i)],
                     [i \in 0..blen |-> PrevAt(e.prev, tp + i)], 0, blen) < blen
  THEN firstDifference([i \in 0..blen |-> ByteAt(src, s + i)],
                       [i \in 0..blen |-> PrevAt(e.prev, tp + i)], 0, blen)
  ELSE matchLenWrapped(s, s1, blen, src)

matchLenFrom(e, s, s1, t, src) ==
  IF t >= 0 THEN matchLenCurrent(s, s1, t, src)
  ELSE IF e.prev.length + t < 0 THEN 0
  ELSE matchLenPrevious(e, s, s1, e.prev.length + t, Min(-t, Max(s1 - s, 0)), src)

\* matchLen(s, t, src)
matchLen(e, s, t, src) ==
  matchLenFrom(e, s, Min(s + MAX_MATCH_LENGTH - 4, Len(src)), t, src)

\* the state of one encode call: the encoder's table, cur and prev, the tokens
\* dst, the locals s, nextS, skip, nextEmit, cv, nextHash and candidate, and
\* the loop the call is in
EncodeState(e, dst, src) ==
  [table |-> e.table, prev |-> e.prev, cur |-> e.cur, dst |-> dst,
   s |-> 0, nextS |-> 0, skip |-> 32, nextEmit |-> 0,
   cv |-> NumOfInt(load32(src, 0)), nextHash |-> hashNumber(NumOfInt(load32(src, 0))),
   candidate |-> TableEntry(<<>>, 0), phase |-> "search"]

\* the search loop after the table is updated: the candidate is tested
searchLooked(st, src, now) ==
  IF st.s - (st.candidate.offset - st.cur) > MAX_MATCH_OFFSET \/ st.cv # st.candidate.val
  THEN [st EXCEPT !.cv = now]
  ELSE [st EXCEPT !.dst = emitLiteral(@, SubSeq(src, st.nextEmit + 1, st.s)),
                  !.phase = "match"]

searchAt(st, src, s, nextS, candidate) ==
  IF nextS > Len(src) - INPUT_MARGIN
  THEN [st EXCEPT !.s = s, !.nextS = nextS, !.skip = @ + Sar(@, 5), !.phase = "remainder"]
  ELSE searchLooked(
         [st EXCEPT !.s = s, !.nextS = nextS, !.skip = @ + Sar(@, 5),
                    !.candidate = candidate,
                    !.table = TableSet(@, TableIndex(st.nextHash), TableEntry(st.cv, s + st.cur)),
                    !.nextHash = hashNumber(NumOfInt(load32(src, nextS)))],
         src, NumOfInt(load32(src, nextS)))

\* one turn of the search loop
searchTurn(st, src) ==
  searchAt(st, src, st.nextS, st.nextS + Sar(st.skip, 5),
           TableAt(st.table, TableIndex(st.nextHash)))

\* the match loop after both table updates: x1 is x >> 8
matchCandidate(st, x1) ==
  IF st.s - (st.candidate.offset - st.cur) > MAX_MATCH_OFFSET \/ ToDouble(x1) # st.candidate.val
  THEN [st EXCEPT !.cv = ToDouble(ShrNum(x1, 8)),
                  !.nextHash = hashNumber(ToDouble(ShrNum(x1, 8))),
                  !.s = @ + 1, !.nextS = st.s + 1, !.skip = 32, !.phase = "search"]
  ELSE st

matchStored(st, x1) ==
  matchCandidate(
    [st EXCEPT !.candidate = TableAt(st.table, TableIndex(hashBigInt(x1))),
               !.table = TableSet(@, TableIndex(hashBigInt(x1)),
                                  TableEntry(ToDouble(x1), st.cur + st.s))],
    x1)

\* the match loop from x = load64(src, s - 1) on
matchHashed(st, x) ==
  matchStored(
    [st EXCEPT !.table = TableSet(@, TableIndex(hashBigInt(x)),
                                  TableEntry(ToDouble(x), st.cur + st.s - 1))],
    ShrNum(x, 8))

matchEmitted(st, src) ==
  IF st.s >= Len(src) - INPUT_MARGIN THEN [st EXCEPT !.phase = "remainder"]
  ELSE matchHashed(st, load64(src, st.s - 1))

\* the match loop with s already advanced by 4, t and l = matchLen(s, t, src)
matchMeasured(st, src, s, t, l) ==
  matchEmitted(
    [st EXCEPT !.dst = Append(@, matchToken(l + 4 - BASE_MATCH_LENGTH, s - t - BASE_MATCH_OFFSET)),
               !.s = s + l, !.nextEmit = s + l],
    src)

matchFound(st, src, s, t) == matchMeasured(st, src, s, t, matchLen(st, s, t, src))

\* one turn of the match loop
matchTurn(st, src) == matchFound(st, src, st.s + 4, st.candidate.offset - st.cur + 4)

\* the loops of encode, up to the label emitRemainder
RECURSIVE encodeRun(_, _)
encodeRun(st, src) ==
  IF st.phase = "remainder" THEN st
  ELSE IF st.phase = "search" THEN encodeRun(searchTurn(st, src), src)
  ELSE encodeRun(matchTurn(st, src), src)

\* the statements after the loops
encodeRemainder(st, src) ==
  [e |-> [table |-> st.table,
          prev |-> PrevFill(PrevSlice(st.prev, Len(src)), src),
          cur |-> st.cur + Len(src)],
   dst |-> IF st.nextEmit < Len(src)
           THEN emitLiteral(st.dst, SubSeq(src, st.nextEmit + 1, Len(src)))
           ELSE st.dst]

encodeChecked(e, dst, src) ==
  IF Len(src) < MIN_NON_LITERAL_BLOCK_SIZE
  THEN [e |-> [e EXCEPT !.cur = @ + MAX_STORE_BLOCK_SIZE, !.prev = PrevSlice(@, 0)],
        dst |-> emitLiteral(dst, src)]
  ELSE encodeRemainder(encodeRun(EncodeState(e, dst, src), src), src)

\* encode(dst, src): the encoder and the tokens returned
encode(e, dst, src) ==
  encodeChecked(IF e.cur >= BUFFER_RESET THEN shiftOffsets(e) ELSE e, dst, src)

-----------------------------------------------------------------------------
(* The state machine of one HuffmanBitWriter and its sink *)

\* what the sink's next writes do: TRUE = that write fails; every write past
\* the end of the plan succeeds
Plans == {<<>>, <<TRUE>>, <<FALSE, TRUE>>}

BitsArgs == {<<1, 1>>, <<43981, 16>>, <<1, 48>>}
CodeArgs == {END_BLOCK_MARKER}
BytesArgs == {<<7, 9>>}
StoredArgs == {<<0, FALSE>>, <<2, TRUE>>}
\* a match token of length 4 (xlength 1) and distance 2 (xoffset 1)
MatchValue == MATCH_TYPE + Shl(1, LENGTH_SHIFT) + 1
\* <<tokens, eof, input supplied, input>>
BlockArgs == {<<<<literalToken(0)>>, FALSE, FALSE, <<>>>>,
              <<<<literalToken(0), MatchValue>>, TRUE, TRUE, <<0, 0, 0, 0, 0>>>>}
HuffArgs == {<<FALSE, <<7, 9>>>>, <<TRUE, <<>>>>}

Cur ==
  [bits |-> bits, nbits |-> nbits, bytes |-> bytes, nbytes |-> nbytes,
   codegenFreq |-> codegenFreq, literalFreq |-> literalFreq, offsetFreq |-> offsetFreq,
   codegen |-> codegen, literalEncoding |-> literalEncoding,
   offsetEncoding |-> offsetEncoding, codegenEncoding |-> codegenEncoding,
   err |-> err, sink |-> sink, plan |-> plan,
   sinkCalls |-> sinkCalls, sinkFailed |-> sinkFailed, singleton |-> singleton,
   thrown |-> "none", emitted |-> "none"]

Commit(w) ==
  /\ bits' = w.bits /\ nbits' = w.nbits /\ bytes' = w.bytes /\ nbytes' = w.nbytes
  /\ codegenFreq' = w.codegenFreq /\ literalFreq' = w.literalFreq
  /\ offsetFreq' = w.offsetFreq /\ codegen' = w.codegen
  /\ literalEncoding' = w.literalEncoding /\ offsetEncoding' = w.offsetEncoding
  /\ codegenEncoding' = w.codegenEncoding
  /\ err' = w.err /\ sink' = w.sink /\ plan' = w.plan /\ singleton' = w.singleton
  /\ sinkCalls' = w.sinkCalls /\ sinkFailed' = w.sinkFailed
  /\ thrown' = w.thrown /\ emitted' = w.emitted

\* one entry of hist
Call(op, b, nb, eof, tokens, hasInput, input) ==
  [op |-> op, b |-> b, nb |-> nb, eof |-> eof, tokens |-> tokens,
   hasInput |-> hasInput, input |-> input, failing |-> FALSE]

NoSingleton == [def |-> FALSE, enc |-> NewHuffmanEncoder(0)]

hvars == <<h, hfreq, hmaxBits, hthrown, hcalls>>
tvars == <<tk>>
cvars == <<cgCall>>
fvars == <<fast, fastCall>>
wvars == <<bits, nbits, bytes, nbytes, codegenFreq, literalFreq, offsetFreq, codegen,
           literalEncoding, offsetEncoding, codegenEncoding, err, sink, plan,
           sinkCalls, sinkFailed, singleton, thrown, emitted, hist, resets>>

InitEncoder ==
  /\ h = NewHuffmanEncoder(0) /\ hfreq = <<>> /\ hmaxBits = 0 /\ hthrown = "none"
  /\ hcalls = 0

InitToken ==
  /\ tk = [op |-> "none", a |-> 0, b |-> 0, value |-> 0]
  /\ cgCall = [calls |-> 0, numLiterals |-> 0, numOffsets |-> 0]
  /\ fast = NewDeflateFast
  /\ fastCall = [encodes |-> 0, resets |-> 0, op |-> "none", src |-> <<>>, dst |-> <<>>]

InitWriter(w) ==
  /\ bits = w.bits /\ nbits = w.nbits /\ bytes = w.bytes /\ nbytes = w.nbytes
  /\ codegenFreq = w.codegenFreq /\ literalFreq = w.literalFreq
  /\ offsetFreq = w.offsetFreq /\ codegen = w.codegen
  /\ literalEncoding = w.literalEncoding /\ offsetEncoding = w.offsetEncoding
  /\ codegenEncoding = w.codegenEncoding
  /\ err = w.err /\ sink = w.sink /\ plan = w.plan /\ singleton = w.singleton
  /\ sinkCalls = w.sinkCalls /\ sinkFailed = w.sinkFailed
  /\ thrown = w.thrown /\ emitted = w.emitted
  /\ hist = <<>> /\ resets = 0

Init ==
  /\ \E p \in Plans : InitWriter(NewWriter(p, NoSingleton))
  /\ InitEncoder
  /\ InitToken

\* operations since construction or the last reset
OpsDone == IF resets = 0 THEN Len(hist) ELSE Len(hist) - 1
CanCall == OpsDone < (IF resets = 0 THEN MaxOps ELSE MaxOpsAfter)

Step(w, call) ==
  /\ Commit(w)
  /\ hist' = Append(hist, call)
  /\ UNCHANGED <<resets, hvars, tvars, cvars, fvars>>

Reset ==
  /\ resets < MaxResets
  /\ \E p \in Plans :
       /\ Commit(reset(Cur, p))
       /\ hist' = <<[Call("reset", 0, 0, FALSE, <<>>, FALSE, <<>>) EXCEPT !.failing = (p # <<>>)]>>
  /\ resets' = resets + 1
  /\ UNCHANGED <<hvars, tvars, cvars, fvars>>

Flush ==
  /\ CanCall
  /\ Step([flush(Cur) EXCEPT !.emitted = emitted], Call("flush", 0, 0, FALSE, <<>>, FALSE, <<>>))

WriteBits ==
  /\ CanCall
  /\ \E a \in BitsArgs :
       Step(writeBits(Cur, a[1], a[2]), Call("writeBits", a[1], a[2], FALSE, <<>>, FALSE, <<>>))

WriteCode ==
  /\ CanCall
  /\ \E sym \in CodeArgs :
       Step(writeCode(Cur, fixedLiteralEncoding.codes[sym + 1]),
            Call("writeCode", sym, 0, FALSE, <<>>, FALSE, <<>>))

WriteBytes ==
  /\ CanCall
  /\ \E b \in BytesArgs :
       Step(writeBytes(Cur, b), Call("writeBytes", 0, 0, FALSE, <<>>, TRUE, b))

WriteStoredHeader ==
  /\ CanCall
  /\ \E a \in StoredArgs :
       Step(writeStoredHeader(Cur, a[1], a[2]),
            Call("writeStoredHeader", a[1], 0, a[2], <<>>, FALSE, <<>>))

WriteFixedHeader ==
  /\ CanCall
  /\ \E e \in BOOLEAN :
       Step(writeFixedHeader(Cur, e), Call("writeFixedHeader", 0, 0, e, <<>>, FALSE, <<>>))

WriteBlock ==
  /\ CanCall
  /\ \E a \in BlockArgs :
       Step(writeBlock(Cur, a[1], a[2], a[3], a[4]),
            Call("writeBlock", 0, 0, a[2], a[1], a[3], a[4]))

WriteBlockDynamic ==
  /\ CanCall
  /\ \E a \in BlockArgs :
       Step(writeBlockDynamic(Cur, a[1], a[2], a[3], a[4]),
            Call("writeBlockDynamic", 0, 0, a[2], a[1], a[3], a[4]))

WriteBlockHuff ==
  /\ CanCall
  /\ \E a \in HuffArgs :
       Step(writeBlockHuff(Cur, a[1], a[2]),
            Call("writeBlockHuff", 0, 0, a[1], <<>>, TRUE, a[2]))

Next ==
  \/ Reset
  \/ Flush
  \/ WriteBits
  \/ WriteCode
  \/ WriteBytes
  \/ WriteStoredHeader
  \/ WriteFixedHeader
  \/ WriteBlock
  \/ WriteBlockDynamic
  \/ WriteBlockHuff

Spec == Init /\ [][Next]_vars


-----------------------------------------------------------------------------
(* The state machine of one stand-alone HuffmanEncoder *)

FreqLen == 4       \* symbols of a frequency vector
MaxFreq == 4       \* largest frequency
MaxGenerates == 1  \* generate calls on the encoder

\* the small frequency vectors, and one whose entries are all above MAX_INT32
Freqs == [1..FreqLen -> 0..MaxFreq] \cup {[i \in 1..FreqLen |-> MAX_INT32 + i]}
MaxBitsArgs == {1, 2, 7, 15, 16}

InitHuff ==
  /\ InitWriter(NewWriter(<<>>, NoSingleton))
  /\ h \in {NewHuffmanEncoder(FreqLen), fixedOffsetEncoding}
  /\ hfreq = <<>> /\ hmaxBits = 0 /\ hthrown = "none" /\ hcalls = 0
  /\ InitToken

Generate ==
  /\ hcalls < MaxGenerates
  /\ hcalls' = hcalls + 1
  /\ \E freq \in Freqs, maxBits \in MaxBitsArgs :
       LET g == generate(h, freq, maxBits) IN
       /\ h' = g.enc /\ hfreq' = freq /\ hmaxBits' = maxBits /\ hthrown' = g.thrown
  /\ UNCHANGED <<wvars, tvars, cvars, fvars>>

NextHuff == Generate

SpecHuff == InitHuff /\ [][NextHuff]_vars

-----------------------------------------------------------------------------
(* The functions of token.ts, called once each *)

MaxShiftArg == 40  \* largest xoffset below the full range given to matchToken

Literals == 0..255
XLengths == 0..255
XOffsets == 0..32767
\* the shift count of matchToken depends on xoffset modulo 32
MatchOffsetArgs == (0..MaxShiftArg) \cup {1024, 32767}

InitTokens ==
  /\ InitWriter(NewWriter(<<>>, NoSingleton))
  /\ InitEncoder
  /\ InitToken

TokenCall(op, a, b, value) ==
  /\ tk' = [op |-> op, a |-> a, b |-> b, value |-> value]
  /\ UNCHANGED <<wvars, hvars, cvars, fvars>>

LiteralToken ==
  /\ tk.op = "none"
  /\ \E literal \in Literals : TokenCall("literalToken", literal, 0, literalToken(literal))

MatchToken ==
  /\ tk.op = "none"
  /\ \E xlength \in XLengths, xoffset \in MatchOffsetArgs :
       TokenCall("matchToken", xlength, xoffset, matchToken(xlength, xoffset))

LengthCode ==
  /\ tk.op = "none"
  /\ \E xlength \in XLengths : TokenCall("lengthCode", xlength, 0, lengthCode(xlength))

OffsetCode ==
  /\ tk.op = "none"
  /\ \E xoffset \in XOffsets : TokenCall("offsetCode", xoffset, 0, offsetCode(xoffset))

NextTokens == LiteralToken \/ MatchToken \/ LengthCode \/ OffsetCode

SpecTokens == InitTokens /\ [][NextTokens]_vars

-----------------------------------------------------------------------------
(* generateCodegen called on a writer, with the fixed encodings as litEnc  *)
(* and offEnc                                                              *)

MaxCodegens == 2  \* generateCodegen calls on one writer

NumLiteralsArgs == {END_BLOCK_MARKER + 1, 265, MAX_NUM_LIT}
NumOffsetsArgs == 1..OFFSET_CODE_COUNT

GenerateCodegen ==
  /\ cgCall.calls < MaxCodegens
  /\ \E numLiterals \in NumLiteralsArgs, numOffsets \in NumOffsetsArgs :
       /\ Commit(generateCodegen(Cur, numLiterals, numOffsets,
                                 fixedLiteralEncoding, fixedOffsetEncoding))
       /\ cgCall' = [calls |-> cgCall.calls + 1, numLiterals |-> numLiterals, numOffsets |-> numOffsets]
  /\ UNCHANGED <<hist, resets, hvars, tvars, fvars>>

NextCodegen == GenerateCodegen

SpecCodegen == InitTokens /\ [][NextCodegen]_vars

-----------------------------------------------------------------------------
(* One DeflateFast: encode(dst, src) with an empty dst, and reset() *)

MaxEncodes == 2      \* encode calls on one DeflateFast
MaxFastResets == 1   \* reset calls on one DeflateFast
MaxSrcLen == 24      \* longest src given to encode
MaxPeriod == 4       \* longest period of a periodic src

\* src[i] = i mod p
Periodic(n, p) == [i \in 1..n |-> (i - 1) % p]
\* zeros with a 1 at index q
Spiked(n, q) == [i \in 1..n |-> IF i - 1 = q THEN 1 ELSE 0]

SrcArgs ==
  {<<>>, <<1, 0, 1>>}
  \cup {Periodic(n, p) : n \in {MIN_NON_LITERAL_BLOCK_SIZE, MaxSrcLen}, p \in 1..MaxPeriod}
  \cup {Spiked(MaxSrcLen, q) : q \in {7, 9}}
  \* a period of 11 gives xoffset = 10, the one for which matchToken shifts by
  \* a multiple of 32
  \cup {Periodic(MaxSrcLen + 4, 11)}

Encode ==
  /\ fastCall.encodes < MaxEncodes
  /\ \E src \in SrcArgs :
       /\ fast' = encode(fast, <<>>, src).e
       /\ fastCall' = [fastCall EXCEPT !.encodes = @ + 1, !.op = "encode", !.src = src,
                                       !.dst = encode(fast, <<>>, src).dst]
  /\ UNCHANGED <<wvars, hvars, tvars, cvars>>

ResetFast ==
  /\ fastCall.resets < MaxFastResets
  /\ fast' = resetFast(fast)
  /\ fastCall' = [fastCall EXCEPT !.resets = @ + 1, !.op = "reset", !.src = <<>>, !.dst = <<>>]
  /\ UNCHANGED <<wvars, hvars, tvars, cvars>>

NextFast == Encode \/ ResetFast

SpecFast == InitTokens /\ [][NextFast]_vars

-----------------------------------------------------------------------------
(* One DeflateFast whose cur has come close to BUFFER_RESET.  cur grows by *)
(* 32768 with every reset and by src.length with every encode of 17 bytes  *)
(* or more, so the two states below are reached from new DeflateFast() by  *)
(* resets alone and by encodes of the same 17 zero bytes alone.            *)

ResetsBefore == 65530        \* reset calls that lead to AfterResets
ZeroBlocksBefore == 126311002 \* encode calls that lead to AfterZeroBlocks

\* new DeflateFast() after ResetsBefore calls of reset(): every reset empties
\* prev and adds MAX_MATCH_OFFSET to cur, and none of them reaches BUFFER_RESET
AfterResets ==
  [table |-> <<>>, prev |-> Uint8Zeros(0),
   cur |-> MAX_STORE_BLOCK_SIZE + ResetsBefore * MAX_MATCH_OFFSET]

\* new DeflateFast() after ZeroBlocksBefore calls of encode([], 17 zero bytes):
\* from the second call on, each call finds its match at s = 0 in prev and
\* leaves the one entry { val: 0, offset: cur } of its first search turn
AfterZeroBlocks ==
  [table |-> TableSet(<<>>, 0,
                      TableEntry(<<>>, MAX_STORE_BLOCK_SIZE
                                       + (ZeroBlocksBefore - 1) * MIN_NON_LITERAL_BLOCK_SIZE)),
   prev |-> PrevFill(Uint8Zeros(MIN_NON_LITERAL_BLOCK_SIZE), Zeros(MIN_NON_LITERAL_BLOCK_SIZE)),
   cur |-> MAX_STORE_BLOCK_SIZE + ZeroBlocksBefore * MIN_NON_LITERAL_BLOCK_SIZE]

InitFastHigh ==
  /\ InitWriter(NewWriter(<<>>, NoSingleton))
  /\ InitEncoder
  /\ tk = [op |-> "none", a |-> 0, b |-> 0, value |-> 0]
  /\ cgCall = [calls |-> 0, numLiterals |-> 0, numOffsets |-> 0]
  /\ fast \in {AfterResets, AfterZeroBlocks}
  /\ fastCall = [encodes |-> 0, resets |-> 0, op |-> "none", src |-> <<>>, dst |-> <<>>]

SpecFastHigh == InitFastHigh /\ [][NextFast]_vars


-----------------------------------------------------------------------------
(* Vocabulary of the properties *)

Last == hist[Len(hist)]
BlockOps == {"writeBlock", "writeBlockDynamic", "writeBlockHuff"}

\* the writer was constructed on a sink that never fails, and has run exactly ops
FreshRun(n) == resets = 0 /\ Len(hist) = n /\ err = "none" /\ plan = <<>>

\* the n low bits of v, least significant first
BitsOfValue(v, n) == [i \in 1..n |-> (v \div Pow2(i - 1)) % 2]

\* the bits of the writeBits calls ops[k..], in call order
RECURSIVE BitStream(_, _)
BitStream(ops, k) ==
  IF k > Len(ops) THEN <<>>
  ELSE BitsOfValue(ops[k].b, ops[k].nb) \o BitStream(ops, k + 1)

BitAt(s, i) == IF i >= 1 /\ i <= Len(s) THEN s[i] ELSE 0

\* a bit stream packed into bytes, least significant bit first, zero padded
PackBits(s) ==
  [j \in 1..((Len(s) + 7) \div 8) |->
     BitAt(s, 8 * j - 7) + 2 * BitAt(s, 8 * j - 6) + 4 * BitAt(s, 8 * j - 5)
     + 8 * BitAt(s, 8 * j - 4) + 16 * BitAt(s, 8 * j - 3) + 32 * BitAt(s, 8 * j - 2)
     + 64 * BitAt(s, 8 * j - 1) + 128 * BitAt(s, 8 * j)]

\* the bytes of a sink as a bit stream, least significant bit first
UnpackBits(b) == [i \in 1..(8 * Len(b)) |-> (b[((i - 1) \div 8) + 1] \div Pow2((i - 1) % 8)) % 2]


-----------------------------------------------------------------------------
(* An RFC 1951 decoder of one fixed or dynamic block, for the properties    *)
(* that speak of what the emitted bytes decode to.                          *)

\* n bits of the stream s from position p on, first bit least significant
RECURSIVE ReadBits(_, _, _)
ReadBits(s, p, n) == IF n = 0 THEN 0 ELSE BitAt(s, p) + 2 * ReadBits(s, p + 1, n - 1)

\* the symbols of code length l, and the k-th of them (from 0) in symbol order
SymbolsOfLen(lens, l) == {i \in 1..Len(lens) : lens[i] = l}
NthOfLen(lens, l, k) ==
  CHOOSE i \in SymbolsOfLen(lens, l) : Cardinality({j \in SymbolsOfLen(lens, l) : j < i}) = k

\* one symbol of the canonical code with lengths lens, read from position p
RECURSIVE DecodeFrom(_, _, _, _, _, _)
DecodeFrom(s, p, lens, l, code, first) ==
  IF l > 15 \/ p > Len(s) THEN [ok |-> FALSE, sym |-> 0, p |-> p]
  ELSE LET c == code + s[p]
           count == Cardinality(SymbolsOfLen(lens, l))
       IN IF c - count < first
          THEN [ok |-> TRUE, sym |-> NthOfLen(lens, l, c - first) - 1, p |-> p + 1]
          ELSE DecodeFrom(s, p + 1, lens, l + 1, 2 * c, 2 * (first + count))
DecodeSymbol(s, p, lens) == DecodeFrom(s, p, lens, 1, 0, 0)

RfcFixedLitLens ==
  [i \in 1..288 |-> IF i <= 144 THEN 8 ELSE IF i <= 256 THEN 9 ELSE IF i <= 280 THEN 7 ELSE 8]
RfcFixedDistLens == [i \in 1..30 |-> 5]
RfcLengthExtra == [i \in 1..29 |-> IF i <= 8 \/ i = 29 THEN 0 ELSE (i - 5) \div 4]
RECURSIVE RfcLengthBase(_)
RfcLengthBase(i) ==
  IF i = 1 THEN 3 ELSE IF i = 29 THEN 258 ELSE RfcLengthBase(i - 1) + Pow2(RfcLengthExtra[i - 1])
RfcDistExtra == [i \in 1..30 |-> IF i <= 4 THEN 0 ELSE (i - 3) \div 2]
RECURSIVE RfcDistBase(_)
RfcDistBase(i) == IF i = 1 THEN 1 ELSE RfcDistBase(i - 1) + Pow2(RfcDistExtra[i - 1])
RfcCodeLengthOrder == <<16, 17, 18, 0, 8, 7, 9, 6, 10, 5, 11, 4, 12, 3, 13, 2, 14, 1, 15>>

Literal(v) == [lit |-> v, len |-> 0, dist |-> 0]
Match(l, d) == [lit |-> -1, len |-> l, dist |-> d]

\* the symbols of a block body from position p up to the end-of-block symbol
RECURSIVE DecodeBody(_, _, _, _, _)
DecodeBody(s, p, litLens, distLens, items) ==
  LET ls == DecodeSymbol(s, p, litLens)
      lc == ls.sym - 257
      lx == ReadBits(s, ls.p, RfcLengthExtra[lc + 1])
      p1 == ls.p + RfcLengthExtra[lc + 1]
      ds == DecodeSymbol(s, p1, distLens)
      dx == ReadBits(s, ds.p, RfcDistExtra[ds.sym + 1])
      p2 == ds.p + RfcDistExtra[ds.sym + 1]
  IN IF ~ls.ok THEN [ok |-> FALSE, items |-> items, p |-> p]
     ELSE IF ls.sym < 256 THEN DecodeBody(s, ls.p, litLens, distLens, Append(items, Literal(ls.sym)))
     ELSE IF ls.sym = 256 THEN [ok |-> TRUE, items |-> items, p |-> ls.p]
     ELSE IF lc > 28 \/ ~ds.ok \/ ds.sym > 29 \/ p2 - 1 > Len(s)
       THEN [ok |-> FALSE, items |-> items, p |-> p]
     ELSE DecodeBody(s, p2, litLens, distLens,
                     Append(items, Match(RfcLengthBase(lc + 1) + lx, RfcDistBase(ds.sym + 1) + dx)))

\* the code lengths of a dynamic header: n lengths decoded with the code clLens
RECURSIVE DecodeLens(_, _, _, _, _)
DecodeLens(s, p, clLens, n, lens) ==
  IF Len(lens) = n THEN [ok |-> TRUE, lens |-> lens, p |-> p]
  ELSE IF Len(lens) > n THEN [ok |-> FALSE, lens |-> lens, p |-> p]
  ELSE
    LET cs == DecodeSymbol(s, p, clLens)
        prev == IF lens = <<>> THEN 0 ELSE lens[Len(lens)]
        rep == IF cs.sym = 16 THEN 3 + ReadBits(s, cs.p, 2)
               ELSE IF cs.sym = 17 THEN 3 + ReadBits(s, cs.p, 3)
               ELSE 11 + ReadBits(s, cs.p, 7)
        used == IF cs.sym = 16 THEN 2 ELSE IF cs.sym = 17 THEN 3 ELSE 7
        val == IF cs.sym = 16 THEN prev ELSE 0
    IN IF ~cs.ok THEN [ok |-> FALSE, lens |-> lens, p |-> p]
       ELSE IF cs.sym < 16 THEN DecodeLens(s, cs.p, clLens, n, Append(lens, cs.sym))
       ELSE IF (cs.sym = 16 /\ lens = <<>>) \/ cs.p + used - 1 > Len(s)
         THEN [ok |-> FALSE, lens |-> lens, p |-> p]
       ELSE DecodeLens(s, cs.p + used, clLens, n, lens \o [i \in 1..rep |-> val])

\* one block of the bit stream s: [ok, eof, btype, items, p]
InflateBlock(s) ==
  LET bad == [ok |-> FALSE, eof |-> FALSE, btype |-> 3, items |-> <<>>, p |-> 1]
      btype == BitAt(s, 2) + 2 * BitAt(s, 3)
      hlit == ReadBits(s, 4, 5) + 257
      hdist == ReadBits(s, 9, 5) + 1
      hclen == ReadBits(s, 14, 4) + 4
      clLens == [sym \in 1..19 |->
                   LET k == CHOOSE i \in 1..19 : RfcCodeLengthOrder[i] = sym - 1
                   IN IF k <= hclen THEN ReadBits(s, 18 + 3 * (k - 1), 3) ELSE 0]
      dl == DecodeLens(s, 18 + 3 * hclen, clLens, hlit + hdist, <<>>)
      body == IF btype = 1 THEN DecodeBody(s, 4, RfcFixedLitLens, RfcFixedDistLens, <<>>)
              ELSE DecodeBody(s, dl.p, SubSeq(dl.lens, 1, hlit),
                              SubSeq(dl.lens, hlit + 1, hlit + hdist), <<>>)
  IN IF Len(s) < 3 \/ btype \notin {1, 2} THEN bad
     ELSE IF btype = 2 /\ (Len(s) < 17 + 3 * hclen \/ ~dl.ok) THEN bad
     ELSE [ok |-> body.ok, eof |-> BitAt(s, 1) = 1, btype |-> btype,
           items |-> body.items, p |-> body.p]

\* what the tokens of a block stand for
TokenItems(tokens) ==
  [k \in 1..Len(tokens) |->
     IF tokens[k] < MATCH_TYPE THEN Literal(TokenLiteral(tokens[k]))
     ELSE Match(TokenLength(tokens[k]) + 3, TokenOffset(tokens[k]) + 1)]

\* from position p on the stream holds fewer than 8 bits, all zero
OnlyPadding(s, p) == Len(s) - p + 1 < 8 /\ \A i \in p..Len(s) : s[i] = 0

-----------------------------------------------------------------------------
(* C1 *)

\* C1: writeBlock(tokens, eof, null) followed by flush on a fresh writer
\* delivers one fixed or dynamic block that decodes to exactly the tokens in
\* order and the end-of-block symbol, followed only by zero padding.
C1_BlockDecodesToTokens ==
  (/\ FreshRun(2)
   /\ hist[1].op = "writeBlock" /\ ~hist[1].hasInput
   /\ hist[2].op = "flush")
  => LET s == UnpackBits(sink)
         r == InflateBlock(s)
     IN /\ r.ok
        /\ r.eof = hist[1].eof
        /\ r.items = TokenItems(hist[1].tokens)
        /\ OnlyPadding(s, r.p)

-----------------------------------------------------------------------------
(* C2 *)

\* C2: writeBits calls of at most 16 bits followed by flush, on a sink that
\* never fails, deliver exactly the values' bits in call order, least
\* significant bit first, zero padded to a byte boundary.
C2_BitWriterRoundTrip ==
  (/\ Len(hist) >= 2
   /\ FreshRun(Len(hist))
   /\ Last.op = "flush"
   /\ \A k \in 1..(Len(hist) - 1) : hist[k].op = "writeBits" /\ hist[k].nb <= 16)
  => sink = PackBits(BitStream(SubSeq(hist, 1, Len(hist) - 1), 1))

-----------------------------------------------------------------------------
(* C3 *)

\* the block operation of the call c on the writer w
ApplyBlock(w, c) ==
  IF c.op = "writeBlock" THEN writeBlock(w, c.tokens, c.eof, c.hasInput, c.input)
  ELSE IF c.op = "writeBlockDynamic" THEN writeBlockDynamic(w, c.tokens, c.eof, c.hasInput, c.input)
  ELSE writeBlockHuff(w, c.eof, c.input)

\* the bytes the call c plus flush deliver on a freshly constructed writer
FreshBytes(c) ==
  flush([ApplyBlock(NewWriter(<<>>, singleton), c) EXCEPT !.thrown = "none"]).sink

-----------------------------------------------------------------------------
(* C4, C5 *)

\* extraBits of writeBlock for the frequencies the writer holds
ExtraBitsNow(c) ==
  IF storedSize(c.hasInput, c.input).storable
  THEN lengthExtra(Cur, LENGTH_CODES_START + 8, Len(literalFreq))
       + offsetExtra(Cur, 4, Len(offsetFreq))
  ELSE 0

\* C4: writeBlock emits the smallest encoding: stored iff the input is
\* supplied, at most 65535 bytes long and (length + 5) * 8 is below both the
\* fixed and the dynamic size; otherwise dynamic iff dynamicSize < fixedSize,
\* and fixed if not.
C4_SmallestEncoding ==
  (Len(hist) >= 1 /\ Last.op = "writeBlock" /\ err = "none")
  => LET st == storedSize(Last.hasInput, Last.input)
         fsize == fixedSize(Cur, ExtraBitsNow(Last))
         dsize == dynamicSize(Cur, literalEncoding, offsetEncoding, ExtraBitsNow(Last)).size
     IN emitted = IF st.storable /\ st.size < Min(fsize, dsize) THEN "stored"
                  ELSE IF dsize < fsize THEN "dynamic" ELSE "fixed"

\* C5: writeBlockDynamic and writeBlockHuff emit a stored block iff the input
\* is supplied, at most 65535 bytes long and (length + 5) * 8 is below
\* dynamicSize + floor(dynamicSize / 16); in every other case a dynamic block.
C5_StoredOrDynamic ==
  (Len(hist) >= 1 /\ Last.op \in {"writeBlockDynamic", "writeBlockHuff"} /\ err = "none")
  => LET st == storedSize(Last.hasInput, Last.input)
         offEnc == IF Last.op = "writeBlockHuff" THEN instance(singleton).enc ELSE offsetEncoding
         dsize == dynamicSize(Cur, literalEncoding, offEnc, 0).size
     IN emitted = IF st.storable /\ st.size < dsize + (dsize \div 16) THEN "stored"
                  ELSE "dynamic"

-----------------------------------------------------------------------------
(* C6 *)

\* BTYPE of a header
BlockType(e) == IF e = "stored" THEN 0 ELSE IF e = "fixed" THEN 1 ELSE IF e = "dynamic" THEN 2 ELSE 3

\* C6: a block operation on a fresh writer followed by flush delivers at
\* least one byte, whose bit 0 is the eof flag and whose bits 1..2 are the
\* type of the block written.
C6_FirstByteHeader ==
  (/\ FreshRun(2)
   /\ hist[1].op \in BlockOps /\ hist[2].op = "flush")
  => /\ Len(sink) >= 1
     /\ sink[1] % 2 = (IF hist[1].eof THEN 1 ELSE 0)
     /\ (sink[1] \div 2) % 4 = BlockType(emitted)

-----------------------------------------------------------------------------
(* C10 *)

NonZero(freq) == {i \in 1..Len(freq) : freq[i] # 0}

\* the sum of 2^(15 - len) over the symbols i.. of non-zero frequency
RECURSIVE KraftFrom(_, _, _)
KraftFrom(codes, freq, i) ==
  IF i > Len(freq) THEN 0
  ELSE (IF freq[i] # 0 THEN Pow2(15 - codes[i].len) ELSE 0) + KraftFrom(codes, freq, i + 1)

\* C10: after generate(freq, maxBits), with maxBits <= 15 and at most
\* 2^maxBits non-zero frequencies, every code length is at most maxBits and
\* the lengths of the symbols of non-zero frequency satisfy Kraft's inequality.
C10_KraftAfterGenerate ==
  (hcalls >= 1 /\ hmaxBits <= 15 /\ Cardinality(NonZero(hfreq)) <= Pow2(hmaxBits))
  => /\ hthrown = "none"
     /\ \A i \in 1..Len(hfreq) : h.codes[i].def /\ h.codes[i].len <= hmaxBits
     /\ KraftFrom(h.codes, hfreq, 1) <= Pow2(15)

-----------------------------------------------------------------------------
(* C7 *)

\* the bytes of a stored block: flag byte, LEN, NLEN, payload
StoredBytes(eof, input) ==
  LET n == Len(input) IN
  <<IF eof THEN 1 ELSE 0, n % 256, n \div 256, (65535 - n) % 256, (65535 - n) \div 256>> \o input

\* C7: the stored encoding of an input of n <= 65535 bytes on a fresh writer
\* delivers n + 5 bytes: the eof flag byte, n and its one's complement as
\* 16-bit little-endian values, then the input.
C7_StoredBlockBytes ==
  /\ (/\ FreshRun(2)
      /\ hist[1].op = "writeStoredHeader" /\ hist[2].op = "writeBytes"
      /\ hist[1].b = Len(hist[2].input))
     => sink = StoredBytes(hist[1].eof, hist[2].input)
  /\ (/\ FreshRun(1)
      /\ Last.op \in BlockOps /\ emitted = "stored")
     => sink = StoredBytes(Last.eof, Last.input)

-----------------------------------------------------------------------------
(* C8 *)

\* C8: a failed sink write is the last call the sink receives until reset;
\* while err is set no operation other than reset changes the sink's bytes or
\* err, flush still sets nbits to 0, and reset clears err.
C8_StickyStep ==
  /\ err' = "sink" => sinkFailed' = sinkCalls'
  /\ resets' # resets => err' = "none"
  /\ (err # "none" /\ resets' = resets)
     => /\ sink' = sink /\ sinkCalls' = sinkCalls /\ err' = err
        /\ hist'[Len(hist')].op = "flush" => nbits' = 0
C8_StickyError == [][C8_StickyStep]_vars

\* a sink write failed in the first or second operation, and two more
\* operations, the last a flush, ran in the error state
C8_Witness ==
  /\ resets = 0 /\ Len(hist) = 3
  /\ hist[1].op = "writeBits" /\ hist[1].nb = 16
  /\ hist[2].op = "writeBytes" /\ hist[3].op = "flush"
  /\ err = "sink" /\ sinkFailed = 1 /\ sinkCalls = 1 /\ sink = <<>> /\ nbits = 0

-----------------------------------------------------------------------------
(* C9 *)

\* C9: writeBytes on a writer without error whose nbits is not a multiple of 8
\* sets err to "unfinished bits", calls the sink for nothing, and leaves bits,
\* nbits and nbytes as they were.
C9_UnfinishedStep ==
  (/\ hist' # hist /\ hist'[Len(hist')].op = "writeBytes"
   /\ err = "none" /\ nbits % 8 # 0)
  => /\ err' = "unfinished bits"
     /\ sink' = sink /\ sinkCalls' = sinkCalls
     /\ bits' = bits /\ nbits' = nbits /\ nbytes' = nbytes
C9_UnfinishedBits == [][C9_UnfinishedStep]_vars

C9_Witness ==
  /\ Len(hist) >= 2 /\ Last.op = "writeBytes"
  /\ hist[Len(hist) - 1].op = "writeBits" /\ hist[Len(hist) - 1].nb = 1
  /\ err = "unfinished bits" /\ nbits = 1 /\ bits = 1 /\ sinkCalls = 0

-----------------------------------------------------------------------------
(* C11 .. C15: the codes generate leaves in the encoder *)

\* the symbols (0-based) of non-zero frequency
Used(freq) == {i \in 0..(Len(freq) - 1) : freq[i + 1] # 0}

\* generate was called with a maxBits that admits a prefix code for freq
Admits(freq, maxBits) ==
  maxBits >= 1 /\ maxBits <= 15 /\ Cardinality(Used(freq)) <= Pow2(maxBits)

\* the canonical (not bit-reversed) value of the code of symbol i
Canonical(codes, i) == reverseBitsN(codes[i + 1].code, codes[i + 1].len)

\* C11: after generate, the symbols of one code length, taken in ascending
\* symbol value, carry consecutive canonical code values, each stored
\* bit-reversed to that length, and the codes of the used symbols are
\* pairwise distinct.
C11_CanonicalOrder ==
  (hcalls >= 1 /\ Admits(hfreq, hmaxBits) /\ Cardinality(Used(hfreq)) >= 2)
  => /\ hthrown = "none"
     /\ \A i \in Used(hfreq) : h.codes[i + 1].def
     /\ \A i, j \in Used(hfreq) :
          (i < j /\ h.codes[i + 1].len = h.codes[j + 1].len
             /\ \A k \in Used(hfreq) : (i < k /\ k < j) => h.codes[k + 1].len # h.codes[i + 1].len)
          => Canonical(h.codes, j) = Canonical(h.codes, i) + 1
     /\ \A i, j \in Used(hfreq) :
          i # j => <<h.codes[i + 1].code, h.codes[i + 1].len>>
                   # <<h.codes[j + 1].code, h.codes[j + 1].len>>

\* C12: after generate(freq, maxBits), codes[i].len = 0 exactly for the
\* symbols of frequency 0, and the other symbols have a length in 1..maxBits,
\* on a new encoder and on one that already holds codes.
C12_ZeroLengthIffUnused ==
  (hcalls >= 1 /\ Admits(hfreq, hmaxBits))
  => /\ hthrown = "none"
     /\ \A i \in 0..(Len(hfreq) - 1) :
          /\ h.codes[i + 1].def
          /\ (h.codes[i + 1].len = 0) <=> (hfreq[i + 1] = 0)
          /\ hfreq[i + 1] # 0 => (h.codes[i + 1].len >= 1 /\ h.codes[i + 1].len <= hmaxBits)

\* the sum of freq[i] * lens[i] over the used symbols from i on
RECURSIVE Cost(_, _, _)
Cost(freq, lens, i) ==
  IF i >= Len(freq) THEN 0
  ELSE (IF freq[i + 1] # 0 THEN freq[i + 1] * lens[i] ELSE 0) + Cost(freq, lens, i + 1)

RECURSIVE KraftOf(_, _, _)
KraftOf(freq, lens, i) ==
  IF i >= Len(freq) THEN 0
  ELSE (IF freq[i + 1] # 0 THEN Pow2(15 - lens[i]) ELSE 0) + KraftOf(freq, lens, i + 1)

\* the length assignments of prefix codes for freq with lengths <= maxBits; a
\* minimum code of n symbols needs no length above n, so longer ones are left out
PrefixLengths(freq, maxBits) ==
  {lens \in [0..(Len(freq) - 1) -> 1..Min(maxBits, Len(freq))] : KraftOf(freq, lens, 0) <= Pow2(15)}

\* C13: generate produces a minimum code: the sum of freq[i] * codes[i].len is
\* the least over all prefix-code length assignments with lengths <= maxBits.
C13_MinimumCode ==
  (hcalls >= 1 /\ Admits(hfreq, hmaxBits) /\ Cardinality(Used(hfreq)) >= 2)
  => /\ hthrown = "none"
     /\ \A i \in Used(hfreq) : h.codes[i + 1].def
     /\ \A lens \in PrefixLengths(hfreq, hmaxBits) :
          Cost(hfreq, [i \in 0..(Len(hfreq) - 1) |-> h.codes[i + 1].len], 0) <= Cost(hfreq, lens, 0)

\* C14: after generate on a vector with at least three non-zero symbols, the
\* encoder's bitCount holds at every index b >= 1 the number of symbols that
\* were given a b-bit code, and 0 at index 0.
C14_BitCountPerLength ==
  (hcalls >= 1 /\ Admits(hfreq, hmaxBits) /\ Cardinality(Used(hfreq)) >= 3)
  => /\ hthrown = "none"
     /\ h.bitCount[1] = 0
     /\ \A b \in 1..(Len(h.bitCount) - 1) :
          h.bitCount[b + 1] =
            Cardinality({i \in Used(hfreq) : h.codes[i + 1].def /\ h.codes[i + 1].len = b})

\* one generate call with maxBits >= 16: it fails, and no symbol of non-zero
\* frequency is given a code
C15_FailFastStep ==
  (hcalls' = hcalls + 1 /\ hmaxBits' >= MAX_BITS_LIMIT)
  => /\ hthrown' # "none"
     /\ \A i \in Used(hfreq') : h'.codes[i + 1] = h.codes[i + 1]

\* C15: generate(freq, maxBits) with maxBits >= 16 fails with an error and
\* assigns no codes, whatever the frequency vector.
C15_FailFast == [][C15_FailFastStep]_vars

-----------------------------------------------------------------------------
(* C16, C17: tokens and their code tables *)

\* C16: a match token made from xlength in 0..255 and xoffset in 0..32767 has
\* a value >= MATCH_TYPE and gives xlength and xoffset back; a literal token
\* made from a byte has a value < MATCH_TYPE and gives the byte back.
C16_TokenRoundTrip ==
  /\ tk.op = "matchToken"
       => /\ tk.value >= MATCH_TYPE
          /\ TokenLength(tk.value) = tk.a
          /\ TokenOffset(tk.value) = tk.b
  /\ tk.op = "literalToken"
       => /\ tk.value < MATCH_TYPE
          /\ TokenLiteral(tk.value) = tk.a

\* C17: lengthCode(xlength) is in 0..28 and offsetCode(xoffset) is in 0..29,
\* and the base and the extra bits of the code bracket the value:
\* BASE[code] <= value < BASE[code] + 2^EXTRA_BITS[code].
C17_CodesBracketValues ==
  /\ tk.op = "lengthCode"
       => /\ tk.value \in 0..28
          /\ LENGTH_BASE[tk.value + 1] <= tk.a
          /\ tk.a < LENGTH_BASE[tk.value + 1] + Pow2(LENGTH_EXTRA_BITS[tk.value + 1])
  /\ tk.op = "offsetCode"
       => /\ tk.value \in 0..29
          /\ OFFSET_BASE[tk.value + 1] <= tk.a
          /\ tk.a < OFFSET_BASE[tk.value + 1] + Pow2(OFFSET_EXTRA_BITS[tk.value + 1])

\* offsetCode took its second range, for the largest offset; lengthCode is
\* covered by the same formula in the states of its calls
C17_Witness == tk.op = "offsetCode" /\ tk.a = 32767 /\ tk.value = 29

-----------------------------------------------------------------------------
(* C18: the frequency tables after a block operation *)

\* the literal/length symbol and the offset code a token is counted under
SymbolOf(t) ==
  IF t < MATCH_TYPE THEN TokenLiteral(t) ELSE LENGTH_CODES_START + lengthCode(TokenLength(t))
IsMatch(t) == t >= MATCH_TYPE
Occurrences(seq, x) == Cardinality({k \in 1..Len(seq) : seq[k] = x})
SymbolCount(tokens, s) == Cardinality({k \in 1..Len(tokens) : SymbolOf(tokens[k]) = s})
OffsetCount(tokens, c) ==
  Cardinality({k \in 1..Len(tokens) : IsMatch(tokens[k]) /\ offsetCode(TokenOffset(tokens[k])) = c})
HasMatch(tokens) == \E k \in 1..Len(tokens) : IsMatch(tokens[k])

\* the tables of writeBlock and writeBlockDynamic count the tokens of the call
\* and the end-of-block marker
TokenTablesCurrent ==
  LET all == Append(Last.tokens, END_BLOCK_MARKER)
  IN /\ \A s \in 0..(MAX_NUM_LIT - 1) : literalFreq[s + 1] = SymbolCount(all, s)
     /\ \A c \in 0..(OFFSET_CODE_COUNT - 1) :
          offsetFreq[c + 1] = IF ~HasMatch(all) /\ c = 0 THEN 1 ELSE OffsetCount(all, c)

\* the table of writeBlockHuff counts the bytes of the input
HuffTableCurrent ==
  /\ \A b \in 0..255 : literalFreq[b + 1] = Occurrences(Last.input, b)
  /\ literalFreq[END_BLOCK_MARKER + 1] = 1
  /\ \A s \in LENGTH_CODES_START..(MAX_NUM_LIT - 1) : literalFreq[s + 1] = 0

\* C18: whatever was written before, after writeBlock or writeBlockDynamic
\* literalFreq and offsetFreq count the symbols of this call's tokens and the
\* end-of-block marker (offsetFreq[0] = 1 when there is no match), and after
\* writeBlockHuff literalFreq counts the bytes of this call's input, with
\* literalFreq[256] = 1 and no length symbol.
C18_TablesOfCurrentBlock ==
  (Len(hist) >= 1 /\ err = "none")
  => /\ Last.op \in {"writeBlock", "writeBlockDynamic"} => TokenTablesCurrent
     /\ Last.op = "writeBlockHuff" => HuffTableCurrent

-----------------------------------------------------------------------------
(* C19: the run-length code of the code lengths *)

\* the index of the first end marker of the stream
StreamEnd(stream) == CHOOSE e \in 0..Len(stream) :
                       /\ e = Len(stream) \/ stream[e + 1] = BAD_CODE
                       /\ \A k \in 1..e : stream[k] # BAD_CODE

Repeat(x, n) == [i \in 1..n |-> x]

\* RFC 1951 3.2.7: the lengths the stream stands for from position k (0-based)
\* up to position e; ok is FALSE for a stream that is not a code-length stream
RECURSIVE Expand(_, _, _, _)
Expand(stream, k, e, acc) ==
  IF k >= e THEN [ok |-> k = e, lens |-> acc]
  ELSE LET s == stream[k + 1]
           x == IF k + 1 < e THEN stream[k + 2] ELSE -1
       IN IF s <= 15 THEN Expand(stream, k + 1, e, Append(acc, s))
          ELSE IF s = 16 /\ x \in 0..3 /\ acc # <<>> /\ acc[Len(acc)] # 0
            THEN Expand(stream, k + 2, e, acc \o Repeat(acc[Len(acc)], x + 3))
          ELSE IF s = 17 /\ x \in 0..7 THEN Expand(stream, k + 2, e, acc \o Repeat(0, x + 3))
          ELSE IF s = 18 /\ x \in 0..127 THEN Expand(stream, k + 2, e, acc \o Repeat(0, x + 11))
          ELSE [ok |-> FALSE, lens |-> acc]

\* the positions of the symbols of the stream (not of their extra values)
RECURSIVE SymbolPositions(_, _, _)
SymbolPositions(stream, k, e) ==
  IF k >= e THEN {}
  ELSE {k} \cup SymbolPositions(stream, IF stream[k + 1] \in 16..18 THEN k + 2 ELSE k + 1, e)

LengthsOf(enc, n) == [i \in 1..n |-> enc.codes[i].len]

\* C19: after generateCodegen(numLiterals, numOffsets, litEnc, offEnc) the
\* stream in codegen up to its end marker 255 expands to the numLiterals
\* lengths of litEnc followed by the numOffsets lengths of offEnc (symbol 16
\* only after a non-zero length), and codegenFreq[k] is the number of
\* occurrences of symbol k in the stream.
C19_CodegenRoundTrip ==
  (cgCall.calls >= 1 /\ thrown = "none")
  => LET e == StreamEnd(codegen)
         x == Expand(codegen, 0, e, <<>>)
         pos == SymbolPositions(codegen, 0, e)
     IN /\ e < Len(codegen)
        /\ x.ok
        /\ x.lens = LengthsOf(fixedLiteralEncoding, cgCall.numLiterals)
                      \o LengthsOf(fixedOffsetEncoding, cgCall.numOffsets)
        /\ \A k \in 0..(CODEGEN_CODE_COUNT - 1) :
             At(codegenFreq, k, 0) = Cardinality({q \in pos : codegen[q + 1] = k})

-----------------------------------------------------------------------------
(* C20: the tokens of DeflateFast.encode *)

\* C20: after any encode and reset calls, every token encode returns is a
\* match token (value >= MATCH_TYPE) with xlength in 1..255 and xoffset in
\* 0..32767, or a literal token that holds a byte 0..255.
C20_TokensInRange ==
  fastCall.op = "encode"
  => \A k \in 1..Len(fastCall.dst) :
       IF fastCall.dst[k] >= MATCH_TYPE
       THEN /\ TokenLength(fastCall.dst[k]) \in 1..255
            /\ TokenOffset(fastCall.dst[k]) \in 0..32767
       ELSE TokenLiteral(fastCall.dst[k]) \in 0..255

-----------------------------------------------------------------------------
(* C21: the tokens of encode, expanded *)

\* the byte at position q of the output, where the positions below 0 are the
\* last bytes of prev; -1 where there is no byte
HistoryAt(prev, out, q) ==
  IF q >= 0 THEN (IF q < Len(out) THEN out[q + 1] ELSE -1) ELSE PrevAt(prev, prev.length + q)

\* out followed by the n bytes copied from d bytes back
CopyBack(prev, out, n, d) ==
  out \o [i \in 1..n |-> HistoryAt(prev, out, Len(out) - d + ((i - 1) % d))]

\* the bytes the tokens from k on stand for, after out
RECURSIVE LzExpand(_, _, _, _)
LzExpand(tokens, k, prev, out) ==
  IF k > Len(tokens) THEN out
  ELSE IF tokens[k] >= MATCH_TYPE
    THEN LzExpand(tokens, k + 1, prev,
                  CopyBack(prev, out, TokenLength(tokens[k]) + BASE_MATCH_LENGTH,
                           TokenOffset(tokens[k]) + BASE_MATCH_OFFSET))
  ELSE LzExpand(tokens, k + 1, prev, Append(out, TokenLiteral(tokens[k])))

\* C21: the tokens an encode call returns expand to the src of that call,
\* byte for byte, where a match copies from the output so far and, before the
\* block's start, from the prev the call found; no match reaches further back
\* than the start of prev.
C21_RoundTripStep ==
  fastCall'.encodes = fastCall.encodes + 1
  => LzExpand(fastCall'.dst, 1, fast.prev, <<>>) = fastCall'.src
C21_LzRoundTrip == [][C21_RoundTripStep]_vars

-----------------------------------------------------------------------------
(* C22: prev *)

\* the bytes of the Uint8Array prev
PrevBytes(prev) == [i \in 1..prev.length |-> PrevAt(prev, i - 1)]

\* C22: prev holds exactly the src of the most recent encode call when that
\* src had at least 17 bytes and no reset came after it; in every other state
\* (initially, after reset, after an encode of fewer than 17 bytes) prev is
\* empty.
C22_PrevIsLastBlock ==
  IF fastCall.op = "encode" /\ Len(fastCall.src) >= MIN_NON_LITERAL_BLOCK_SIZE
  THEN fast.prev.length = Len(fastCall.src) /\ PrevBytes(fast.prev) = fastCall.src
  ELSE fast.prev.length = 0

-----------------------------------------------------------------------------
(* C23: no match into the history after reset or a short block *)

\* the position in src at which token k starts
PositionOf(tokens, k) == Len(LzExpand(SubSeq(tokens, 1, k - 1), 1, Uint8Zeros(0), <<>>))

\* the call before this one emptied the history
HistoryDropped ==
  \/ fastCall.op = "reset"
  \/ fastCall.op = "encode" /\ Len(fastCall.src) < MIN_NON_LITERAL_BLOCK_SIZE

\* C23: in the first encode after reset(), and in the first encode after an
\* encode of fewer than 17 bytes, no match that encode returns has a distance
\* larger than its own position in the current src.
C23_InvalidationStep ==
  (HistoryDropped /\ fastCall'.encodes = fastCall.encodes + 1)
  => \A k \in 1..Len(fastCall'.dst) :
       fastCall'.dst[k] >= MATCH_TYPE
       => TokenOffset(fastCall'.dst[k]) + BASE_MATCH_OFFSET <= PositionOf(fastCall'.dst, k)
C23_HistoryInvalidated == [][C23_InvalidationStep]_vars

-----------------------------------------------------------------------------
(* C24, C25: cur near BUFFER_RESET *)

\* cur and the offsets of the table are int32 values, the offsets below cur
OffsetsInRange(e) ==
  /\ e.cur \in 0..FAST_MAX_INT32
  /\ \A k \in DOMAIN e.table : e.table[k].offset \in 0..FAST_MAX_INT32 /\ e.table[k].offset < e.cur

IsEncodeStep == fastCall'.encodes = fastCall.encodes + 1
IsResetStep == fastCall'.resets = fastCall.resets + 1

\* what an encode of src adds to cur
Advance(src) == IF Len(src) < MIN_NON_LITERAL_BLOCK_SIZE THEN MAX_STORE_BLOCK_SIZE ELSE Len(src)

\* C24: cur and every table offset stay within 0..2^31-1, every offset is
\* below cur between calls, and an encode or a reset that finds cur at or
\* above BUFFER_RESET rebases it to 32769 (an encode then adds its block).
C24_RebaseStep ==
  /\ OffsetsInRange(fast)
  /\ OffsetsInRange(fast')
  /\ (IsEncodeStep /\ fast.cur >= BUFFER_RESET)
       => fast'.cur = MAX_MATCH_OFFSET + 1 + Advance(fastCall'.src)
  /\ (IsResetStep /\ fast.cur >= BUFFER_RESET) => fast'.cur = MAX_MATCH_OFFSET + 1
C24_CounterInRange == [][C24_RebaseStep]_vars

\* an encode has rebased cur and stored entries after it
C24_Witness ==
  /\ fastCall.op = "encode"
  /\ fast.cur = MAX_MATCH_OFFSET + 1 + Len(fastCall.src)
  /\ DOMAIN fast.table # {}

\* shiftOffsets keeps the distance of the entries at most 32769 behind cur
\* and sets the offset of the others to 0; with an empty prev no entry stays
ShiftKeepsDistances(e) ==
  IF e.prev.length = 0 THEN shiftOffsets(e).table = <<>>
  ELSE \A k \in DOMAIN e.table :
         IF e.cur - e.table[k].offset <= MAX_MATCH_OFFSET + 1
         THEN shiftOffsets(e).cur - shiftOffsets(e).table[k].offset = e.cur - e.table[k].offset
         ELSE shiftOffsets(e).table[k].offset = 0

\* C25: shiftOffsets keeps cur - offset of every entry within 32769 of cur
\* and zeroes the others, and an encode that rebased at its start returns the
\* tokens of the same call made without rebasing.
C25_TransparentStep ==
  (IsEncodeStep /\ fast.cur >= BUFFER_RESET)
  => /\ ShiftKeepsDistances(fast)
     /\ fastCall'.dst = encodeChecked(fast, <<>>, fastCall'.src).dst
C25_RebaseTransparent == [][C25_TransparentStep]_vars

-----------------------------------------------------------------------------
(* C26 *)

\* the list generate(freq, maxBits) sorts and hands to bitCounts on the encoder
\* enc: [thrown, count, list]
generateList(enc, freq) ==
  LET st == generateLoop([list |-> <<>>, count |-> 0, codes |-> enc.codes, thrown |-> "none"],
                         freq, 0)
  IN [thrown |-> st.thrown, count |-> st.count,
      list |-> SortNodes(SetAt(st.list, Len(freq), LiteralNode(0, 0), UndefNode), TRUE)]

\* the generate step reaches bitCounts with maxBits in 1..15
ReachesBitCounts ==
  /\ hcalls' = hcalls + 1
  /\ hmaxBits' <= 15
  /\ generateList(h, hfreq').thrown = "none"
  /\ generateList(h, hfreq').count >= 3

C26_SentinelStep ==
  ReachesBitCounts =>
    LET list == generateList(h, hfreq').list
        n == Len(list)
        maxBits == Min(hmaxBits', n - 1)
        bc == bitCounts(h, list, hmaxBits')
    IN /\ bc.list[n + 1].freq = 2147483647
       /\ bitCountsLevels(list[1], list[2], list[3], maxBits, n)[1].nextPairFreq = 2147483647
       /\ bc.line # 213
       /\ bc.line # 223

\* C26: in bitCounts the sentinel appended after the sorted list has frequency
\* 2147483647 and level 1's nextPairFreq is 2147483647, so that for
\* frequencies below 2^31 - 1 the walk never reads past the sentinel (it is
\* never consumed as a leaf, line 213) and never takes a pair at level 1
\* (line 223).
C26_SentinelNeverTaken == [][C26_SentinelStep]_vars

-----------------------------------------------------------------------------
(* C27 *)

C27_WalkStep ==
  ReachesBitCounts =>
    LET g == generateList(h, hfreq')
        bc == bitCounts(h, g.list, hmaxBits')
    IN /\ bc.thrown = "none"
       /\ Len(g.list) = g.count

\* C27: for a frequency vector with at least three non-zero symbols and
\* maxBits <= 15 the level walk of bitCounts ends without an error (no
\* "leafCounts[maxBits][maxBits] != n", no list or level index out of range),
\* with the top level's leaf count, the length of the list, equal to the
\* number of symbols of non-zero frequency.
C27_WalkTerminates == [][C27_WalkStep]_vars

-----------------------------------------------------------------------------
(* C28 *)

\* C28: generate on a frequency vector with exactly one or two non-zero
\* symbols completes without error; each used symbol has length 1, the lower
\* used symbol has code 0 and the higher one code 1, and every unused symbol
\* has length 0.
C28_SmallAlphabet ==
  (hcalls >= 1 /\ Cardinality(NonZero(hfreq)) \in {1, 2})
  => /\ hthrown = "none"
     /\ \A i \in 1..Len(hfreq) :
          /\ h.codes[i].def
          /\ h.codes[i].len = (IF hfreq[i] # 0 THEN 1 ELSE 0)
          /\ hfreq[i] # 0 => h.codes[i].code = Cardinality({j \in NonZero(hfreq) : j < i})

-----------------------------------------------------------------------------
(* C29 *)

\* bit p of the 32-bit pattern of v
BitOfInt32(v, p) ==
  IF p < 16 THEN (Lo16(v) \div Pow2(p)) % 2
  ELSE IF p < 32 THEN (Hi16(v) \div Pow2(p - 16)) % 2
  ELSE 0

\* bytes[0..nbytes) followed by the low nbits of bits, as a bit stream
PendingBits ==
  UnpackBits(Slice(bytes, 0, nbytes)) \o [i \in 1..nbits |-> BitOfInt32(bits, i - 1)]

\* every operation so far completed without an exception and without a sticky
\* error, and every writeBits had at most 16 bits
CompletedOps ==
  /\ thrown = "none" /\ err = "none"
  /\ \A k \in 1..Len(hist) : hist[k].op = "writeBits" => hist[k].nb <= 16

\* C29: after every completed operation of the writer 0 <= nbits <= 47, bits
\* has no bit set at position nbits or above, 0 <= nbytes < 240, and the
\* pending data is bytes[0..nbytes) followed by the low nbits of bits (for a
\* run of writeBits calls alone: the sink, then the pending data, are the bits
\* written so far).
C29_BitBufferInvariant ==
  CompletedOps =>
    /\ 0 <= nbits /\ nbits <= 47
    /\ \A p \in nbits..31 : BitOfInt32(bits, p) = 0
    /\ 0 <= nbytes /\ nbytes < BUFFER_FLUSH_SIZE
    /\ (resets = 0 /\ \A k \in 1..Len(hist) : hist[k].op = "writeBits")
       => UnpackBits(sink) \o PendingBits = BitStream(hist, 1)

-----------------------------------------------------------------------------
(* C30 *)

\* the bits a single operation on a fresh writer appended: delivered, staged
\* in bytes, and held in bits
BitsAppended == 8 * Len(sink) + 8 * nbytes + nbits

\* C30: when writeBlock, given a storable input, writes a fixed or dynamic
\* block (the stored size is not below both sizes), the number of bits it
\* appends to the stream is the fixedSize or dynamicSize value it compared
\* against storedSize.
C30_SizeIsEmitted ==
  LET st == storedSize(Last.hasInput, Last.input)
      fsize == fixedSize(Cur, ExtraBitsNow(Last))
      dsize == dynamicSize(Cur, literalEncoding, offsetEncoding, ExtraBitsNow(Last)).size
  IN (/\ FreshRun(1) /\ Last.op = "writeBlock"
      /\ Last.hasInput /\ st.storable /\ ~(st.size < Min(fsize, dsize)))
     => /\ emitted \in {"fixed", "dynamic"}
        /\ BitsAppended = (IF emitted = "dynamic" THEN dsize ELSE fsize)

====
